---- MODULE Spec2Model ----
(***************************************************************************)
(* Model of figma-to-react: the regeneration-safe diff / merge utilities   *)
(* (packages/core/src/utils/diff.ts), the token lookup of the style        *)
(* adapters, and the normalizers that build the intermediate tree.         *)
(*                                                                         *)
(* A text is a sequence of atoms.  An atom is either a single character    *)
(* (a letter, a digit, a blank, the newline) or one of the literal tokens   *)
(* the code searches for, kept as one indivisible atom.  No token occurs    *)
(* inside another one or across the border of two atoms, so substring       *)
(* search, prefix test and equality on atom sequences agree with the same   *)
(* operations on the underlying JavaScript strings.                         *)
(***************************************************************************)
EXTENDS Integers, Sequences, FiniteSets, TLC

VARIABLES
  existingContent,    \* the previous text (the file on disk)
  generatedContent,   \* the freshly generated text
  result,             \* the DiffResult of mergeUserBlocks
  rerun,              \* the DiffResult of merging again into result.merged
  strategy,           \* the answer of resolveUpdateStrategy
  wrapContent,        \* the text handed to wrapUserBlock
  wrapId,             \* the optional label handed to wrapUserBlock
  wrapped,            \* the text wrapUserBlock returned
  blocks,             \* the blocks extractUserBlocks returned
  pc,                 \* which call has returned
  \* token lookup
  px,                 \* the number looked up
  tokens,             \* the DesignTokens tables: spacing, borderRadius
  tok,                \* what the lookup returned
  className,          \* the class the Tailwind adapter emitted for it
  \* style normalizer
  node,               \* the FigmaNode given to a parser
  style,              \* the IRStyle parseStyle returned
  \* layout normalizer
  isAbsoluteChild,    \* the second argument of parseLayout
  layout,             \* the IRLayout it returned
  \* variant extractor
  props,              \* the IRPropDef list extractVariantProps returned
  \* node parser
  ir,                 \* the IRNode parseNode returned
  \* EmotionCssAdapter
  cssVars,            \* this.cssVars, in insertion order
  inlineProps,        \* what the last generateStyle returned
  collected,          \* what the last getCollectedCssVars returned
  sinceReset,         \* the nodes given to generateStyle since the last reset
  hadEarlierRun,      \* a reset has wiped at least one definition
  \* markup builder
  jsx,                \* what renderTextContent returned
  \* withRetry
  maxRetries,         \* the second argument: the number of retries allowed
  backoff,            \* the third argument: the first waiting time, in ms
  attempt,            \* the loop counter
  history,            \* the invocations of fn so far: when, and how they ended
  lastError,          \* the error caught last
  outcome,            \* how withRetry settled, once it has
  now,                \* the clock, in ms
  wait                \* the argument of the sleep that is pending

diffVars == <<existingContent, generatedContent, result, rerun, strategy,
              wrapContent, wrapId, wrapped, blocks>>

tokenVars == <<px, tokens, tok, className>>

styleVars == <<node, style>>

layoutVars == <<isAbsoluteChild, layout>>

variantVars == <<props>>

nodeVars == <<ir>>

adapterVars == <<cssVars, inlineProps, collected, sinceReset, hadEarlierRun>>

builderVars == <<jsx>>

retryVars == <<maxRetries, backoff, attempt, history, lastError, outcome, now,
               wait>>

vars == <<diffVars, pc, tokenVars, styleVars, layoutVars, variantVars,
          nodeVars, adapterVars, builderVars, retryVars>>

\* what the calls of one part of the program leave alone
exceptDiff == <<tokenVars, styleVars, layoutVars, variantVars, nodeVars,
                 adapterVars, builderVars, retryVars>>
exceptToken == <<diffVars, styleVars, layoutVars, variantVars, nodeVars,
                 adapterVars, builderVars, retryVars>>
exceptStyle == <<diffVars, tokenVars, layoutVars, variantVars, nodeVars,
                 adapterVars, builderVars, retryVars>>
exceptLayout == <<diffVars, tokenVars, style, variantVars, nodeVars,
                 adapterVars, builderVars, retryVars>>
exceptVariant == <<diffVars, tokenVars, style, layoutVars, nodeVars,
                 adapterVars, builderVars, retryVars>>
exceptNode == <<diffVars, tokenVars, style, layoutVars, variantVars,
                 adapterVars, builderVars, retryVars>>
exceptAdapter == <<diffVars, px, tok, className, styleVars, layoutVars,
                   variantVars, nodeVars, builderVars, retryVars>>
exceptBuilder == <<diffVars, tokenVars, style, layoutVars, variantVars,
                   adapterVars, retryVars>>
exceptRetry == <<diffVars, tokenVars, styleVars, layoutVars, variantVars,
                 nodeVars, adapterVars, builderVars>>

----------------------------------------------------------------------------
(* Atoms                                                                   *)

NL == "\n"
SP == " "
WhiteSpace == {SP, NL, "\t"}

\* diff.ts:22-23, the marker tokens
USER_BLOCK_START == <<"// @f2r-user-start">>
USER_BLOCK_END == <<"// @f2r-user-end">>

\* the prefix `block_${...}` of a default id (diff.ts:68, 152, 173)
BLOCK_PREFIX == <<"block_">>

\* the literal prefixes of the two generation comments (diff.ts:219-220)
GENERATED_BY == "// Generated by figma-to-react"
AT_GENERATED == "// @generated"

----------------------------------------------------------------------------
(* JavaScript string primitives on atom sequences                          *)

\* String.prototype.startsWith
StartsWith(s, p) ==
  /\ Len(s) >= Len(p)
  /\ SubSeq(s, 1, Len(p)) = p

\* String.prototype.slice(n), n >= 0
SliceFrom(s, n) == SubSeq(s, n + 1, Len(s))

\* String.prototype.includes
Includes(s, p) ==
  \E i \in 0..(Len(s) - Len(p)) : SubSeq(s, i + 1, i + Len(p)) = p

\* String.prototype.trimEnd
TrimEnd(s) ==
  LET keep == {i \in 1..Len(s) : s[i] \notin WhiteSpace}
      last == IF keep = {} THEN 0 ELSE CHOOSE i \in keep : \A j \in keep : j <= i
  IN SubSeq(s, 1, last)

\* String.prototype.trimStart
TrimStart(s) ==
  LET keep == {i \in 1..Len(s) : s[i] \notin WhiteSpace}
      first == IF keep = {} THEN Len(s) + 1
               ELSE CHOOSE i \in keep : \A j \in keep : i <= j
  IN SubSeq(s, first, Len(s))

\* String.prototype.trim
Trim(s) == TrimEnd(TrimStart(s))

\* String.prototype.split('\n'): always at least one line
RECURSIVE SplitAcc(_, _, _, _)
SplitAcc(s, i, cur, acc) ==
  IF i > Len(s) THEN Append(acc, cur)
  ELSE IF s[i] = NL THEN SplitAcc(s, i + 1, <<>>, Append(acc, cur))
  ELSE SplitAcc(s, i + 1, Append(cur, s[i]), acc)

SplitLines(s) == SplitAcc(s, 1, <<>>, <<>>)

\* Array.prototype.join(sep)
RECURSIVE Join(_, _)
Join(lines, sep) ==
  IF Len(lines) = 0 THEN <<>>
  ELSE IF Len(lines) = 1 THEN lines[1]
  ELSE lines[1] \o sep \o Join(Tail(lines), sep)

\* decimal rendering of a natural number, as in `${blockIndex}`
Digit == <<"0", "1", "2", "3", "4", "5", "6", "7", "8", "9">>

RECURSIVE NumberToString(_)
NumberToString(n) ==
  IF n < 10 THEN <<Digit[n + 1]>>
  ELSE NumberToString(n \div 10) \o <<Digit[(n % 10) + 1]>>

----------------------------------------------------------------------------
(* extractUserBlocks (diff.ts:53-93)                                       *)

\* the label of a start-marker line, `trimmed.slice(START.length).trim()`
MarkerLabel(trimmed) == Trim(SliceFrom(trimmed, Len(USER_BLOCK_START)))

\* `label || `block_${blockIndex}``: the empty label is falsy
MarkerId(trimmed, blockIndex) ==
  IF MarkerLabel(trimmed) # <<>> THEN MarkerLabel(trimmed)
  ELSE BLOCK_PREFIX \o NumberToString(blockIndex)

\* the test that opens a block (diff.ts:65 and diff.ts:150)
IsStartLine(line) == StartsWith(Trim(line), USER_BLOCK_START)

\* the test that closes a block (diff.ts:75 and diff.ts:137)
IsEndLine(line) == Trim(line) = USER_BLOCK_END

ExtractInit ==
  [blocks |-> <<>>, inBlock |-> FALSE, currentId |-> <<>>,
   currentLines |-> <<>>, blockIndex |-> 0]

\* ExtractStep with a slip: the trimmed line is collected instead of the line
ExtractStepTrimmed(st, line) ==
  IF IsStartLine(line) THEN
    [st EXCEPT !.currentId = MarkerId(Trim(line), st.blockIndex),
               !.inBlock = TRUE,
               !.currentLines = <<>>,
               !.blockIndex = @ + 1]
  ELSE IF IsEndLine(line) THEN
    IF st.inBlock THEN
      [st EXCEPT !.blocks = Append(@, [id |-> st.currentId,
                                       content |-> Join(st.currentLines, <<NL>>)]),
                 !.inBlock = FALSE,
                 !.currentLines = <<>>]
    ELSE st
  ELSE IF st.inBlock THEN
    [st EXCEPT !.currentLines = Append(@, Trim(line))]
  ELSE st

\* ExtractStep with a slip: the default id counts the blocks collected so
\* far instead of the start markers met so far
ExtractStepCountsBlocks(st, line) ==
  IF IsStartLine(line) THEN
    [st EXCEPT !.currentId = MarkerId(Trim(line), Len(st.blocks)),
               !.inBlock = TRUE,
               !.currentLines = <<>>,
               !.blockIndex = @ + 1]
  ELSE IF IsEndLine(line) THEN
    IF st.inBlock THEN
      [st EXCEPT !.blocks = Append(@, [id |-> st.currentId,
                                       content |-> Join(st.currentLines, <<NL>>)]),
                 !.inBlock = FALSE,
                 !.currentLines = <<>>]
    ELSE st
  ELSE IF st.inBlock THEN
    [st EXCEPT !.currentLines = Append(@, line)]
  ELSE st

\* one iteration of the loop over the lines
ExtractStep(st, line) ==
  IF IsStartLine(line) THEN
    [st EXCEPT !.currentId = MarkerId(Trim(line), st.blockIndex),
               !.inBlock = TRUE,
               !.currentLines = <<>>,
               !.blockIndex = @ + 1]
  ELSE IF IsEndLine(line) THEN
    IF st.inBlock THEN
      [st EXCEPT !.blocks = Append(@, [id |-> st.currentId,
                                       content |-> Join(st.currentLines, <<NL>>)]),
                 !.inBlock = FALSE,
                 !.currentLines = <<>>]
    ELSE st
  ELSE IF st.inBlock THEN
    [st EXCEPT !.currentLines = Append(@, line)]
  ELSE st

RECURSIVE ExtractLoop(_, _, _)
ExtractLoop(st, lines, i) ==
  IF i > Len(lines) THEN st
  ELSE ExtractLoop(ExtractStep(st, lines[i]), lines, i + 1)

ExtractUserBlocks(content) ==
  ExtractLoop(ExtractInit, SplitLines(content), 1).blocks

----------------------------------------------------------------------------
(* wrapUserBlock (diff.ts:201-208)                                         *)

\* `id` is the optional label; the empty sequence stands for an absent
\* (or empty, equally falsy) id
WrapUserBlock(content, id) ==
  LET label == IF id # <<>> THEN <<SP>> \o id ELSE <<>>
  IN Join(<<USER_BLOCK_START \o label, content, USER_BLOCK_END>>, <<NL>>)

----------------------------------------------------------------------------
(* mergeUserBlocks (diff.ts:104-189)                                       *)

\* `new Map(userBlocks.map(b => [b.id, b]))`: a later block of the same id
\* replaces an earlier one
BlockMap(userBlocks) ==
  [id \in {userBlocks[i].id : i \in DOMAIN userBlocks} |->
     LET at == {i \in DOMAIN userBlocks : userBlocks[i].id = id}
     IN userBlocks[CHOOSE i \in at : \A j \in at : j <= i]]

\* HasContent with a slip: the test of the content is forgotten
HasContentUntested(blockMap, id) == id \in DOMAIN blockMap

\* `block && block.content.trim()`
HasContent(blockMap, id) ==
  /\ id \in DOMAIN blockMap
  /\ Trim(blockMap[id].content) # <<>>

MergeInit ==
  [resultLines |-> <<>>, skipUntilEnd |-> FALSE, currentId |-> <<>>,
   blockIndex |-> 0, preservedCount |-> 0]

\* MergeStep with a slip: the placeholder of a pair is skipped only when a
\* previous block is there to replace it
MergeStepKeepsPlaceholder(st, line, blockMap) ==
  IF st.skipUntilEnd THEN
    IF IsEndLine(line) THEN
      IF HasContent(blockMap, st.currentId) THEN
        [st EXCEPT !.resultLines =
                     Append(@ \o SplitLines(blockMap[st.currentId].content), line),
                   !.preservedCount = @ + 1,
                   !.skipUntilEnd = FALSE]
      ELSE
        [st EXCEPT !.resultLines = Append(@, line),
                   !.skipUntilEnd = FALSE]
    ELSE IF st.currentId \in DOMAIN blockMap THEN st
    ELSE [st EXCEPT !.resultLines = Append(@, line)]
  ELSE IF IsStartLine(line) THEN
    [st EXCEPT !.currentId = MarkerId(Trim(line), st.blockIndex),
               !.blockIndex = @ + 1,
               !.resultLines = Append(@, line),
               !.skipUntilEnd = TRUE]
  ELSE
    [st EXCEPT !.resultLines = Append(@, line)]

\* one iteration of the loop over the lines of the generated text
\* (diff.ts:133-160)
MergeStep(st, line, blockMap) ==
  IF st.skipUntilEnd THEN
    IF IsEndLine(line) THEN
      IF HasContent(blockMap, st.currentId) THEN
        [st EXCEPT !.resultLines =
                     Append(@ \o SplitLines(blockMap[st.currentId].content), line),
                   !.preservedCount = @ + 1,
                   !.skipUntilEnd = FALSE]
      ELSE
        [st EXCEPT !.resultLines = Append(@, line),
                   !.skipUntilEnd = FALSE]
    ELSE st
  ELSE IF IsStartLine(line) THEN
    [st EXCEPT !.currentId = MarkerId(Trim(line), st.blockIndex),
               !.blockIndex = @ + 1,
               !.resultLines = Append(@, line),
               !.skipUntilEnd = TRUE]
  ELSE
    [st EXCEPT !.resultLines = Append(@, line)]

RECURSIVE MergeLoop(_, _, _, _)
MergeLoop(st, lines, i, blockMap) ==
  IF i > Len(lines) THEN st
  ELSE MergeLoop(MergeStep(st, lines[i], blockMap), lines, i + 1, blockMap)

\* AppendedBlocks with a slip: the blocks are collected newest first
RECURSIVE AppendedBlocksReversed(_)
AppendedBlocksReversed(userBlocks) ==
  IF userBlocks = <<>> THEN <<>>
  ELSE LET block == Head(userBlocks)
           label == IF StartsWith(block.id, BLOCK_PREFIX) THEN <<>> ELSE block.id
       IN IF Trim(block.content) # <<>>
          THEN AppendedBlocksReversed(Tail(userBlocks))
                 \o <<WrapUserBlock(block.content, label)>>
          ELSE AppendedBlocksReversed(Tail(userBlocks))

\* the blocks the append branch keeps (diff.ts:171-177)
RECURSIVE AppendedBlocks(_)
AppendedBlocks(userBlocks) ==
  IF userBlocks = <<>> THEN <<>>
  ELSE LET block == Head(userBlocks)
           label == IF StartsWith(block.id, BLOCK_PREFIX) THEN <<>> ELSE block.id
       IN IF Trim(block.content) # <<>>
          THEN <<WrapUserBlock(block.content, label)>> \o AppendedBlocks(Tail(userBlocks))
          ELSE AppendedBlocks(Tail(userBlocks))

\* MergeUserBlocks with a slip: no early return when the previous text has
\* no user block
MergeUserBlocksNoEarlyReturn(existing, generated) ==
  LET userBlocks == ExtractUserBlocks(existing)
      generatedHasMarkers == Includes(generated, USER_BLOCK_START)
      scan == MergeLoop(MergeInit, SplitLines(generated), 1, BlockMap(userBlocks))
      appendedBlocks == AppendedBlocks(userBlocks)
  IN IF generatedHasMarkers THEN
       [merged |-> Join(scan.resultLines, <<NL>>),
        preservedCount |-> scan.preservedCount,
        hadUserBlocks |-> Len(userBlocks) > 0]
     ELSE
       [merged |-> IF Len(appendedBlocks) > 0
                   THEN TrimEnd(generated) \o <<NL, NL>>
                          \o Join(appendedBlocks, <<NL, NL>>) \o <<NL>>
                   ELSE generated,
        preservedCount |-> Len(appendedBlocks),
        hadUserBlocks |-> Len(userBlocks) > 0]

MergeUserBlocks(existing, generated) ==
  LET userBlocks == ExtractUserBlocks(existing)
      generatedHasMarkers == Includes(generated, USER_BLOCK_START)
      scan == MergeLoop(MergeInit, SplitLines(generated), 1, BlockMap(userBlocks))
      appendedBlocks == AppendedBlocks(userBlocks)
  IN IF Len(userBlocks) = 0 THEN
       [merged |-> generated, preservedCount |-> 0, hadUserBlocks |-> FALSE]
     ELSE IF generatedHasMarkers THEN
       [merged |-> Join(scan.resultLines, <<NL>>),
        preservedCount |-> scan.preservedCount,
        hadUserBlocks |-> TRUE]
     ELSE
       [merged |-> IF Len(appendedBlocks) > 0
                   THEN TrimEnd(generated) \o <<NL, NL>>
                          \o Join(appendedBlocks, <<NL, NL>>) \o <<NL>>
                   ELSE generated,
        preservedCount |-> Len(appendedBlocks),
        hadUserBlocks |-> TRUE]

----------------------------------------------------------------------------
(* isContentEqual and resolveUpdateStrategy (diff.ts:216-245)              *)

\* s.replace(/<token>[^\n]*/g, ''): every occurrence of the token is removed
\* together with the rest of its line
RECURSIVE RemoveComment(_, _, _, _)
RemoveComment(s, token, i, inComment) ==
  IF i > Len(s) THEN <<>>
  ELSE IF s[i] = NL THEN <<NL>> \o RemoveComment(s, token, i + 1, FALSE)
  ELSE IF inComment \/ s[i] = token THEN RemoveComment(s, token, i + 1, TRUE)
  ELSE <<s[i]>> \o RemoveComment(s, token, i + 1, FALSE)

\* s.replace(/\s+/g, ' ')
RECURSIVE CollapseWhiteSpace(_, _)
CollapseWhiteSpace(s, i) ==
  IF i > Len(s) THEN <<>>
  ELSE IF s[i] \in WhiteSpace THEN
    IF i > 1 /\ s[i - 1] \in WhiteSpace THEN CollapseWhiteSpace(s, i + 1)
    ELSE <<SP>> \o CollapseWhiteSpace(s, i + 1)
  ELSE <<s[i]>> \o CollapseWhiteSpace(s, i + 1)

Normalize(s) ==
  Trim(CollapseWhiteSpace(
         RemoveComment(RemoveComment(s, GENERATED_BY, 1, FALSE),
                       AT_GENERATED, 1, FALSE), 1))

IsContentEqual(a, b) == Normalize(a) = Normalize(b)

\* ResolveUpdateStrategy with a slip: the markers are looked for first
ResolveUpdateStrategyMarkersFirst(existing, generated) ==
  IF Includes(existing, USER_BLOCK_START) THEN "merge"
  ELSE IF IsContentEqual(existing, generated) THEN "skip"
  ELSE "overwrite"

ResolveUpdateStrategy(existing, generated) ==
  IF IsContentEqual(existing, generated) THEN "skip"
  ELSE IF Includes(existing, USER_BLOCK_START) THEN "merge"
  ELSE "overwrite"

----------------------------------------------------------------------------
(* Inputs: texts built from a few kinds of line and of marked block        *)

\* lines
LinePlain == <<"a">>
LineBlank == <<SP>>
LineStart == USER_BLOCK_START
LineStartX == USER_BLOCK_START \o <<SP, "x">>
LineEnd == USER_BLOCK_END
\* the start token as the prefix of a longer word
LineStartGlued == USER_BLOCK_START \o <<"x">>
\* the start token inside a longer line
LineInline == <<"a", SP>> \o USER_BLOCK_START
\* the two generation comments
LineGeneratedBy == <<GENERATED_BY, SP, "1">>
LineAtGenerated == <<AT_GENERATED>>

\* a chunk is a sequence of lines: one line, or a whole marked block
ChunkBlock == <<LineStart, <<"c">>, LineEnd>>
ChunkBlockX == <<LineStartX, <<SP, "d">>, LineEnd>>
\* a marked block whose content is one blank line
ChunkBlockBlank == <<LineStart, LineBlank, LineEnd>>

\* what a previous text is built from
PrevChunks ==
  { <<LinePlain>>, <<LineStart>>, <<LineEnd>>, <<LineStartGlued>>,
    ChunkBlock, ChunkBlockX, ChunkBlockBlank }

\* what a freshly generated text is built from
FreshChunks ==
  { <<LinePlain>>, <<LineBlank>>, <<LineStart>>, <<LineEnd>>,
    <<LineStartGlued>>, <<LineInline>>, ChunkBlock, ChunkBlockX }

MaxChunks == 2

RECURSIVE Flatten(_)
Flatten(chunks) ==
  IF chunks = <<>> THEN <<>> ELSE Head(chunks) \o Flatten(Tail(chunks))

\* the texts of at most n chunks drawn from cs; no chunk at all is the
\* empty text
TextsOf(cs, n) ==
  { Join(Flatten(f), <<NL>>) : f \in UNION { [1..k -> cs] : k \in 0..n } }

PrevTexts == TextsOf(PrevChunks, MaxChunks)
FreshTexts == TextsOf(FreshChunks, MaxChunks)

\* what the two texts compared by resolveUpdateStrategy are built from
LineIndented == <<SP, "a", SP, SP, "b">>
LineSpaced == <<"a", SP, "b">>

StrategyChunks ==
  { <<LinePlain>>, <<LineBlank>>, <<LineIndented>>, <<LineSpaced>>,
    <<LineGeneratedBy>>, <<LineAtGenerated>>, <<LineInline>>, ChunkBlock }

StrategyTexts == TextsOf(StrategyChunks, MaxChunks)

\* the labels handed to wrapUserBlock; the empty one is the absent label
WrapIds == { <<>>, <<"x">>, BLOCK_PREFIX \o <<"7">> }

----------------------------------------------------------------------------
(* State machine: the exported functions applied to a previous text and a  *)
(* freshly generated text                                                  *)

NoResult == [merged |-> <<>>, preservedCount |-> 0, hadUserBlocks |-> FALSE]

\* the token lookup takes no part
TokenUnused ==
  /\ px = 0
  /\ tokens = [spacing |-> <<>>, borderRadius |-> <<>>]
  /\ tok = [found |-> FALSE]
  /\ className = <<>>

\* the diff utilities take no part
DiffUnused ==
  /\ existingContent = <<>>
  /\ generatedContent = <<>>
  /\ wrapContent = <<>>
  /\ result = NoResult
  /\ rerun = NoResult
  /\ strategy = "none"
  /\ wrapId = <<>>
  /\ wrapped = <<>>
  /\ blocks = <<>>

\* the style normalizer takes no part
StyleUnused ==
  /\ node = <<>>
  /\ style = <<>>

\* the layout normalizer takes no part
LayoutUnused ==
  /\ isAbsoluteChild = FALSE
  /\ layout = <<>>

\* the variant extractor takes no part
VariantUnused == props = <<>>

\* the node parser takes no part
NodeUnused == ir = <<>>

\* no Emotion adapter takes part
AdapterUnused ==
  /\ cssVars = <<>>
  /\ inlineProps = <<>>
  /\ collected = <<>>
  /\ sinceReset = <<>>
  /\ hadEarlierRun = FALSE

\* the markup builder takes no part
BuilderUnused == jsx = <<>>

\* no withRetry call takes part
RetryUnused ==
  /\ maxRetries = 0
  /\ backoff = 0
  /\ attempt = 0
  /\ history = <<>>
  /\ lastError = <<>>
  /\ outcome = <<>>
  /\ now = 0
  /\ wait = 0

Idle ==
  /\ AdapterUnused
  /\ BuilderUnused
  /\ RetryUnused
  /\ NodeUnused
  /\ TokenUnused
  /\ StyleUnused
  /\ LayoutUnused
  /\ VariantUnused
  /\ result = NoResult
  /\ rerun = NoResult
  /\ strategy = "none"
  /\ wrapId = <<>>
  /\ wrapped = <<>>
  /\ blocks = <<>>
  /\ pc = "start"

Init ==
  /\ existingContent \in PrevTexts
  /\ generatedContent \in FreshTexts
  /\ wrapContent = <<>>
  /\ Idle

InitStrategy ==
  /\ existingContent \in StrategyTexts
  /\ generatedContent \in StrategyTexts
  /\ wrapContent = <<>>
  /\ Idle

InitScan ==
  /\ existingContent \in PrevTexts \cup FreshTexts
  /\ generatedContent = <<>>
  /\ wrapContent = <<>>
  /\ Idle

InitWrap ==
  /\ existingContent = <<>>
  /\ generatedContent = <<>>
  /\ wrapContent \in FreshTexts
  /\ Idle

\* resolveUpdateStrategy(existingContent, generatedContent)
Resolve ==
  /\ pc = "start"
  /\ strategy' = ResolveUpdateStrategy(existingContent, generatedContent)
  /\ pc' = "resolved"
  /\ UNCHANGED <<existingContent, generatedContent, result, rerun,
                 wrapContent, wrapId, wrapped, blocks>>
  /\ UNCHANGED exceptDiff

\* mergeUserBlocks(existingContent, generatedContent)
Merge ==
  /\ pc \in {"start", "resolved"}
  /\ result' = MergeUserBlocks(existingContent, generatedContent)
  /\ pc' = "merged"
  /\ UNCHANGED <<existingContent, generatedContent, rerun, strategy,
                 wrapContent, wrapId, wrapped, blocks>>
  /\ UNCHANGED exceptDiff

\* the merged text is written back and the same fresh text is merged into
\* it again: mergeUserBlocks(result.merged, generatedContent)
Remerge ==
  /\ pc = "merged"
  /\ rerun' = MergeUserBlocks(result.merged, generatedContent)
  /\ pc' = "remerged"
  /\ UNCHANGED <<existingContent, generatedContent, result, strategy,
                 wrapContent, wrapId, wrapped, blocks>>
  /\ UNCHANGED exceptDiff

\* wrapUserBlock(wrapContent, id)
Wrap ==
  /\ pc = "start"
  /\ \E id \in WrapIds :
       /\ wrapId' = id
       /\ wrapped' = WrapUserBlock(wrapContent, id)
  /\ pc' = "wrapped"
  /\ UNCHANGED <<existingContent, generatedContent, result, rerun, strategy,
                 wrapContent, blocks>>
  /\ UNCHANGED exceptDiff

\* extractUserBlocks(wrapped)
Extract ==
  /\ pc = "wrapped"
  /\ blocks' = ExtractUserBlocks(wrapped)
  /\ pc' = "extracted"
  /\ UNCHANGED <<existingContent, generatedContent, result, rerun, strategy,
                 wrapContent, wrapId, wrapped>>
  /\ UNCHANGED exceptDiff

\* extractUserBlocks(existingContent)
Scan ==
  /\ pc = "start"
  /\ blocks' = ExtractUserBlocks(existingContent)
  /\ pc' = "scanned"
  /\ UNCHANGED <<existingContent, generatedContent, result, rerun, strategy,
                 wrapContent, wrapId, wrapped>>
  /\ UNCHANGED exceptDiff

Next == Merge \/ Remerge

NextStrategy == Resolve \/ Merge

NextWrap == Wrap \/ Extract

\* merging, and merging again
Spec == Init /\ [][Next]_vars

\* deciding the update strategy, then merging
SpecStrategy == InitStrategy /\ [][NextStrategy]_vars

\* wrapping a text and extracting it again
SpecWrap == InitWrap /\ [][NextWrap]_vars

NextScan == Scan

\* extracting the user blocks of a text
SpecScan == InitScan /\ [][NextScan]_vars

----------------------------------------------------------------------------
(* Vocabulary of the properties                                            *)

Range(f) == {f[i] : i \in DOMAIN f}

IsBlank(s) == \A i \in DOMAIN s : s[i] \in WhiteSpace

Ids(bs) == {bs[i].id : i \in DOMAIN bs}

\* the last block of bs that has the given id
LastWithId(bs, id) ==
  LET at == {i \in DOMAIN bs : bs[i].id = id}
  IN bs[CHOOSE i \in at : \A j \in at : j <= i]

PrevBlocks == ExtractUserBlocks(existingContent)
MergedBlocks == ExtractUserBlocks(result.merged)

PrevLines == SplitLines(existingContent)
FreshLines == SplitLines(generatedContent)
MergedLines == SplitLines(result.merged)

\* a start marker as the interface defines it: the whole trimmed line is the
\* start token, or the start token, white space and a label
IsProperStartLine(line) ==
  LET trimmed == Trim(line)
  IN \/ trimmed = USER_BLOCK_START
     \/ /\ StartsWith(trimmed, USER_BLOCK_START)
        /\ Len(trimmed) > Len(USER_BLOCK_START)
        /\ trimmed[Len(USER_BLOCK_START) + 1] \in WhiteSpace

Least(S) == CHOOSE i \in S : \A j \in S : i <= j

\* the marker pairs of a text, read top to bottom: a start-marker line, the
\* first end-marker line below it, and the id the start line gives (its
\* label, or block_n for the n-th start line, counted from 0)
RECURSIVE PairsFrom(_, _, _)
PairsFrom(lines, from, n) ==
  LET starts == {k \in from..Len(lines) : IsStartLine(lines[k])}
  IN IF starts = {} THEN <<>>
     ELSE LET a == Least(starts)
              ends == {k \in (a + 1)..Len(lines) : IsEndLine(lines[k])}
          IN IF ends = {} THEN <<>>
             ELSE <<[start |-> a, end |-> Least(ends),
                     id |-> MarkerId(Trim(lines[a]), n),
                     labelled |-> MarkerLabel(Trim(lines[a])) # <<>>]>>
                  \o PairsFrom(lines, Least(ends) + 1, n + 1)

FreshPairs == PairsFrom(FreshLines, 1, 0)

\* what the fresh text has between the two markers of a pair
Placeholder(pair) ==
  Join(SubSeq(FreshLines, pair.start + 1, pair.end - 1), <<NL>>)

----------------------------------------------------------------------------
(* C1 - C5                                                                 *)

\* C1: the content of every user block extracted from the previous text is
\* present in the merged text (a block of blank content has nothing to lose
\* and is left out of the statement).
C1_RegionsSurvive ==
  pc = "merged" =>
    \A i \in DOMAIN PrevBlocks :
      ~IsBlank(PrevBlocks[i].content) =>
        Includes(result.merged, PrevBlocks[i].content)

\* C2, as claimed: a marker pair of the fresh text whose id is the id of a
\* previous block has exactly that block's content between its markers in
\* the merged text.
C2_PairGetsPreviousContent ==
  pc = "merged" =>
    \A k \in DOMAIN FreshPairs :
      FreshPairs[k].id \in Ids(PrevBlocks) =>
        /\ k <= Len(MergedBlocks)
        /\ \E i \in DOMAIN PrevBlocks :
             /\ PrevBlocks[i].id = FreshPairs[k].id
             /\ MergedBlocks[k].content = PrevBlocks[i].content

\* C2, amended: such a pair keeps its id and has between its markers the
\* content of the last previous block of that id when that content is not
\* blank, and nothing at all when it is blank.
C2_PairGetsNonBlankContent ==
  pc = "merged" =>
    LET pairs == FreshPairs
        prev == PrevBlocks
        merged == MergedBlocks
    IN \A k \in DOMAIN pairs :
         pairs[k].id \in Ids(prev) =>
           /\ k <= Len(merged)
           /\ merged[k].id = pairs[k].id
           /\ merged[k].content =
                IF IsBlank(LastWithId(prev, pairs[k].id).content)
                THEN <<>>
                ELSE LastWithId(prev, pairs[k].id).content

\* C2, witness: a pair took over previous content that differs from the
\* placeholder the fresh text had.
C2_Witness ==
  /\ pc = "merged"
  /\ \E k \in DOMAIN FreshPairs :
       /\ FreshPairs[k].id \in Ids(PrevBlocks)
       /\ ~IsBlank(LastWithId(PrevBlocks, FreshPairs[k].id).content)
       /\ Placeholder(FreshPairs[k]) # LastWithId(PrevBlocks, FreshPairs[k].id).content
       /\ MergedBlocks[k].content = LastWithId(PrevBlocks, FreshPairs[k].id).content

C4_OnlyWholeLineMarkers ==
  (pc = "merged" /\ result.hadUserBlocks) =>
    \E i \in DOMAIN PrevLines : IsProperStartLine(PrevLines[i])

\* C5: the lines below a start marker of the fresh text that no end marker
\* follows are all still there in the merged text.
C5_UnterminatedPassthrough ==
  pc = "merged" =>
    \A i \in DOMAIN FreshLines :
      ( /\ IsStartLine(FreshLines[i])
        /\ \A j \in (i + 1)..Len(FreshLines) : ~IsEndLine(FreshLines[j]) )
      => \A j \in (i + 1)..Len(FreshLines) : FreshLines[j] \in Range(MergedLines)

----------------------------------------------------------------------------
(* C6 - C10                                                                *)

Contents(bs) == [i \in DOMAIN bs |-> bs[i].content]

NonBlank(s) == ~IsBlank(s)

\* the fresh text has no marker for the merge to fill: the start token
\* occurs nowhere in it
FreshHasNoMarkers == ~Includes(generatedContent, USER_BLOCK_START)

\* C6, as claimed: when the previous text has user blocks and the fresh text
\* has no markers, the merged text is the fresh text followed by every
\* previous block, wrapped in markers again, in the original order.
C6_AppendsEveryBlock ==
  (pc = "merged" /\ PrevBlocks # <<>> /\ FreshHasNoMarkers) =>
    /\ StartsWith(result.merged, TrimEnd(generatedContent))
    /\ Contents(MergedBlocks) = Contents(PrevBlocks)

\* C6, amended: the merged text is the fresh text, its trailing white space
\* removed, followed by every previous block of non-blank content, wrapped in
\* markers again, in the original order; when every previous block is blank
\* the merged text is the fresh text as it is.
C6_AppendsNonBlankBlocks ==
  (pc = "merged" /\ FreshHasNoMarkers) =>
    LET prev == PrevBlocks
        merged == MergedBlocks
    IN prev # <<>> =>
         /\ StartsWith(result.merged, TrimEnd(generatedContent))
         /\ Contents(merged) = SelectSeq(Contents(prev), NonBlank)
         /\ result.preservedCount = Len(merged)
         /\ (merged = <<>> => result.merged = generatedContent)

\* C6, witness: two different previous blocks were appended to a fresh text
\* that has no markers.
C6_Witness ==
  /\ pc = "merged"
  /\ FreshHasNoMarkers
  /\ generatedContent # <<>>
  /\ Len(PrevBlocks) >= 2
  /\ Len(MergedBlocks) >= 2
  /\ MergedBlocks[1].content # MergedBlocks[2].content

\* C7, as claimed: a marker pair of the fresh text whose id is the id of no
\* previous block gets its content by position, the k-th pair from the k-th
\* previous block.
C7_PositionalFallback ==
  pc = "merged" =>
    \A k \in DOMAIN FreshPairs :
      ( /\ FreshPairs[k].id \notin Ids(PrevBlocks)
        /\ k <= Len(PrevBlocks)
        /\ ~IsBlank(PrevBlocks[k].content) )
      => /\ k <= Len(MergedBlocks)
         /\ MergedBlocks[k].content = PrevBlocks[k].content

\* C7, amended: blocks are matched by id alone.  Position enters only
\* through the default id: the k-th pair of the fresh text, counted from 0,
\* has the id block_k when its start marker has no label.  A pair whose id
\* is the id of no previous block is left with nothing between its markers.
C7_MatchedByIdOnly ==
  pc = "merged" =>
    LET pairs == FreshPairs
        prev == PrevBlocks
        merged == MergedBlocks
    IN prev # <<>> =>
         \A k \in DOMAIN pairs :
           /\ k <= Len(merged)
           /\ ~pairs[k].labelled =>
                merged[k].id = BLOCK_PREFIX \o NumberToString(k - 1)
           /\ pairs[k].id \notin Ids(prev) =>
                merged[k].content = <<>>

\* C7, witness: a pair with an unknown id lost its placeholder and got
\* nothing, although the previous text has a block at the same position.
C7_Witness ==
  /\ pc = "merged"
  /\ \E k \in DOMAIN FreshPairs :
       /\ FreshPairs[k].id \notin Ids(PrevBlocks)
       /\ k <= Len(PrevBlocks)
       /\ ~IsBlank(PrevBlocks[k].content)
       /\ ~IsBlank(Placeholder(FreshPairs[k]))
       /\ MergedBlocks[k].content = <<>>

\* C8: when the previous text contains no marker, the merged text is the
\* fresh text, atom for atom, and nothing is reported as preserved.
C8_NoMarkersUnchanged ==
  (pc = "merged" /\ ~Includes(existingContent, USER_BLOCK_START)) =>
    /\ result.merged = generatedContent
    /\ result.preservedCount = 0
    /\ ~result.hadUserBlocks

\* C8, witness: a fresh text with a filled marker pair came back unchanged
\* from a merge with a previous text that has no marker.
C8_Witness ==
  /\ pc = "merged"
  /\ ~Includes(existingContent, USER_BLOCK_START)
  /\ existingContent # <<>>
  /\ \E k \in DOMAIN FreshPairs : ~IsBlank(Placeholder(FreshPairs[k]))
  /\ result.merged = generatedContent

\* what is left of a line when a generation comment is cut off
SignificantPart(line) ==
  LET at == {i \in DOMAIN line : line[i] \in {GENERATED_BY, AT_GENERATED}}
  IN IF at = {} THEN line ELSE SubSeq(line, 1, Least(at) - 1)

\* the words of a text: the maximal runs of atoms that are not white space
RECURSIVE WordsAcc(_, _, _, _)
WordsAcc(s, i, cur, acc) ==
  IF i > Len(s) THEN (IF cur = <<>> THEN acc ELSE Append(acc, cur))
  ELSE IF s[i] \in WhiteSpace
       THEN WordsAcc(s, i + 1, <<>>, IF cur = <<>> THEN acc ELSE Append(acc, cur))
       ELSE WordsAcc(s, i + 1, Append(cur, s[i]), acc)

\* the words of a text outside its generation comments
RECURSIVE SignificantWords(_)
SignificantWords(lines) ==
  IF lines = <<>> THEN <<>>
  ELSE WordsAcc(SignificantPart(Head(lines)), 1, <<>>, <<>>)
         \o SignificantWords(Tail(lines))

SameUpToWhiteSpaceAndComments ==
  SignificantWords(PrevLines) = SignificantWords(FreshLines)

WrapLines == SplitLines(wrapContent)

\* no line of the wrapped text is itself read as a marker
WrapContentHasNoMarkerLine ==
  \A i \in DOMAIN WrapLines :
    ~IsStartLine(WrapLines[i]) /\ ~IsEndLine(WrapLines[i])

\* C10, as claimed: extracting the blocks of a wrapped text returns one
\* block, whose content is the text that was wrapped.
C10_RoundTrip ==
  pc = "extracted" =>
    /\ Len(blocks) = 1
    /\ blocks[1].content = wrapContent

\* C10, amended: the round trip returns the text whenever no line of the
\* text is itself read as a start or end marker; the block's id is the
\* label, or block_0 without a label.
C10_RoundTripWithoutMarkerLines ==
  (pc = "extracted" /\ WrapContentHasNoMarkerLine) =>
    /\ Len(blocks) = 1
    /\ blocks[1].content = wrapContent
    /\ blocks[1].id = IF wrapId # <<>> THEN wrapId
                      ELSE BLOCK_PREFIX \o NumberToString(0)

\* C10, witness: a labelled round trip of a text of several lines, one of
\* them blank and one with the start token inside it.
C10_Witness ==
  /\ pc = "extracted"
  /\ WrapContentHasNoMarkerLine
  /\ wrapId # <<>>
  /\ Includes(wrapContent, USER_BLOCK_START)
  /\ \E i \in DOMAIN WrapLines : WrapLines[i] # <<>> /\ IsBlank(WrapLines[i])
  /\ blocks = <<[id |-> wrapId, content |-> wrapContent]>>

----------------------------------------------------------------------------
(* C11                                                                     *)

Greatest(S) == CHOOSE i \in S : \A j \in S : j <= i

StartsBefore(lines, e) == {k \in 1..(e - 1) : IsStartLine(lines[k])}

\* the end-marker lines that close a block: a start-marker line stands above
\* them with no other end-marker line in between
ClosingLines(lines) ==
  {e \in DOMAIN lines :
     /\ IsEndLine(lines[e])
     /\ StartsBefore(lines, e) # {}
     /\ \A k \in (Greatest(StartsBefore(lines, e)) + 1)..(e - 1) :
          ~IsEndLine(lines[k])}

\* the i-th closing line, from the top
RECURSIVE NthLeast(_, _)
NthLeast(S, i) == IF i = 1 THEN Least(S) ELSE NthLeast(S \ {Least(S)}, i - 1)

\* the start-marker line of the block that the line e closes
OpeningLine(lines, e) == Greatest(StartsBefore(lines, e))

\* the blocks come in the order of the text, each with the lines between its
\* start marker and its end marker, and a labelled one with its label as id
BlocksInTextOrder(lines, bs) ==
  /\ Len(bs) = Cardinality(ClosingLines(lines))
  /\ \A i \in DOMAIN bs :
       LET e == NthLeast(ClosingLines(lines), i)
           s == OpeningLine(lines, e)
       IN /\ bs[i].content = Join(SubSeq(lines, s + 1, e - 1), <<NL>>)
          /\ MarkerLabel(Trim(lines[s])) # <<>> =>
               bs[i].id = MarkerLabel(Trim(lines[s]))

----------------------------------------------------------------------------
(* Token lookup (adapters/token-mapper.ts:57-74 findSpacingToken, the      *)
(* Tailwind adapter's findRadiusToken) and the classes built from it       *)

\* `closestDiff <= 2`, the tolerance of a match
Tolerance == 2

\* `if (px === 9999) return 'full'`, the radius of a pill
FullRadius == 9999

Abs(n) == IF n < 0 THEN -n ELSE n

\* `let closest = null; let closestDiff = Infinity`
NoClosest == [found |-> FALSE]

\* one turn of `for (const [key, value] of Object.entries(table))`: the entry
\* replaces the closest one when `diff < closestDiff`, strictly
ClosestStep(st, entry, n) ==
  LET diff == Abs(entry.value - n)
  IN  IF ~st.found \/ diff < st.diff
        THEN [found |-> TRUE, key |-> entry.key, diff |-> diff]
        ELSE st

RECURSIVE ClosestLoop(_, _, _, _)
ClosestLoop(st, table, i, n) ==
  IF i > Len(table) THEN st
  ELSE ClosestLoop(ClosestStep(st, table[i], n), table, i + 1, n)

\* what a lookup returns: a key, or null
Null == [found |-> FALSE]
Key(k) == [found |-> TRUE, key |-> k]

\* `tok ? ... : ...`: null and the empty string are falsy
Truthy(t) == t.found /\ t.key # ""

FindSpacingTokenStrictTolerance(n, tk) ==
  LET st == ClosestLoop(NoClosest, tk.spacing, 1, n)
  IN  IF st.found /\ st.diff < Tolerance THEN Key(st.key) ELSE Null

\* `return closestDiff <= 2 ? closest : null`
FindSpacingToken(n, tk) ==
  LET st == ClosestLoop(NoClosest, tk.spacing, 1, n)
  IN  IF st.found /\ st.diff <= Tolerance THEN Key(st.key) ELSE Null

FindRadiusToken(n, tk) ==
  IF n = FullRadius THEN Key("full")
  ELSE LET st == ClosestLoop(NoClosest, tk.borderRadius, 1, n)
       IN  IF st.found /\ st.diff <= Tolerance THEN Key(st.key) ELSE Null

\* `tok ? `gap-${tok}` : `gap-[${layout.gap}px]``, and the same for rounded-
TokenClass(prefix, t, n) ==
  IF Truthy(t) THEN <<prefix, "-", t.key>>
  ELSE <<prefix, "-[">> \o NumberToString(n) \o <<"px]">>

TokenKeys == {"1", "4", "full"}

MaxPx == 6
MaxEntries == 2

PxValues == (0..MaxPx) \cup {FullRadius - 1, FullRadius}

\* the tables of a DesignTokens object: entries in Object.entries order, no
\* key twice
TokenTables ==
  UNION { { t \in [1..n -> [key : TokenKeys, value : PxValues]] :
              \A i, j \in 1..n : t[i].key = t[j].key => i = j } :
          n \in 0..MaxEntries }

\* each lookup reads its own table only, so one table serves as both
InitTokens ==
  /\ DiffUnused
  /\ AdapterUnused
  /\ BuilderUnused
  /\ RetryUnused
  /\ NodeUnused
  /\ StyleUnused
  /\ LayoutUnused
  /\ VariantUnused
  /\ pc = "start"
  /\ px \in PxValues
  /\ \E t \in TokenTables : tokens = [spacing |-> t, borderRadius |-> t]
  /\ tok = Null
  /\ className = <<>>

\* layoutClasses, `if (layout.gap !== undefined) { ... }`
GapClass ==
  /\ pc = "start"
  /\ tok' = FindSpacingToken(px, tokens)
  /\ className' = TokenClass("gap", tok', px)
  /\ pc' = "gap"
  /\ UNCHANGED <<px, tokens>>
  /\ UNCHANGED exceptToken

\* borderRadiusClasses, `if (typeof radius === 'number') { ... }`
BorderRadiusClasses ==
  /\ pc = "start"
  /\ tok' = FindRadiusToken(px, tokens)
  /\ className' = TokenClass("rounded", tok', px)
  /\ pc' = "rounded"
  /\ UNCHANGED <<px, tokens>>
  /\ UNCHANGED exceptToken

NextTokens == GapClass \/ BorderRadiusClasses

SpecTokens == InitTokens /\ [][NextTokens]_vars

\* the table a finished lookup has read
TableRead == IF pc = "gap" THEN tokens.spacing ELSE tokens.borderRadius

Distance(entry) == Abs(entry.value - px)

\* the entries nearest to the number looked up
IsNearest(table, i) ==
  \A j \in 1..Len(table) : Distance(table[i]) <= Distance(table[j])

RawLiteral(prefix) == <<prefix, "-[">> \o NumberToString(px) \o <<"px]">>

ClassPrefix == IF pc = "gap" THEN "gap" ELSE "rounded"

\* the nearest entry is within the tolerance and the lookup returned its key
ReturnsNearestKey(table) ==
  /\ tok.found
  /\ \E i \in 1..Len(table) :
       /\ IsNearest(table, i)
       /\ tok.key = table[i].key
  /\ className = <<ClassPrefix, "-", tok.key>>

\* the lookup returned no token and the class is the raw literal
ReturnsRawLiteral ==
  /\ ~tok.found
  /\ className = RawLiteral(ClassPrefix)

NearWithin(table, d) == \E i \in 1..Len(table) : Distance(table[i]) <= d

\* C12 as stated: a spacing or radius lookup returns the key of a nearest
\* entry whenever that entry is within 2 units of the number, and no token,
\* so that the raw literal is emitted, whenever the nearest entry is 3 or
\* more units away.
C12_NearestWithinTwo ==
  pc \in {"gap", "rounded"} =>
    /\ NearWithin(TableRead, 2) => ReturnsNearestKey(TableRead)
    /\ ~NearWithin(TableRead, 2) => ReturnsRawLiteral

\* C12, amended: the same, except that a radius of exactly 9999 always gives
\* the key "full", whatever the table holds.
C12_NearestWithinTwoExceptFull ==
  /\ pc = "rounded" /\ px = FullRadius =>
       tok = Key("full") /\ className = <<"rounded", "-", "full">>
  /\ pc = "gap" \/ (pc = "rounded" /\ px # FullRadius) =>
       /\ NearWithin(TableRead, 2) => ReturnsNearestKey(TableRead)
       /\ ~NearWithin(TableRead, 2) => ReturnsRawLiteral

\* a lookup whose nearest entry, the second of the table, is exactly 2 away
C12_Witness ==
  /\ pc = "gap"
  /\ Len(tokens.spacing) = 2
  /\ Distance(tokens.spacing[1]) > 2
  /\ Distance(tokens.spacing[2]) = 2
  /\ tok = Key(tokens.spacing[2].key)

----------------------------------------------------------------------------
(* The style normalizer (parser/style-parser.ts): parseStyle               *)

\* an optional property of an object is a field the record has or lacks
Has(obj, field) == field \in DOMAIN obj

\* the value `undefined` where an object with a `type` is expected
Undefined == [type |-> "undefined"]

IsUndefined(x) == Has(x, "type") /\ x.type = "undefined"

\* the object `{}`
EmptyObject == <<>>

\* figmaColorToIR(color, opacity = 1)
FigmaColorToIR(color, opacity) ==
  [type |-> "solid",
   r |-> color.r * 255, g |-> color.g * 255, b |-> color.b * 255,
   a |-> color.a * opacity]

\* `fill.opacity`, 1 when it is not given
OpacityOf(fill) == IF Has(fill, "opacity") THEN fill.opacity ELSE 1

\* Math.round(Math.atan2(dy, dx) * 180 / Math.PI) on the eight compass
\* directions
Atan2Degrees(dy, dx) ==
  IF dy = 0 THEN (IF dx >= 0 THEN 0 ELSE 180)
  ELSE IF dx = 0 THEN (IF dy > 0 THEN 90 ELSE -90)
  ELSE IF dy > 0 THEN (IF dx > 0 THEN 45 ELSE 135)
  ELSE (IF dx > 0 THEN -45 ELSE -135)

\* `(fill.gradientStops ?? []).map(...)`
GradientStops(fill) ==
  IF Has(fill, "gradientStops")
    THEN [i \in 1..Len(fill.gradientStops) |->
            [color |-> FigmaColorToIR(fill.gradientStops[i].color, 1),
             position |-> fill.gradientStops[i].position]]
    ELSE <<>>

ParseGradient(fill, type) ==
  LET base == [type |-> type, stops |-> GradientStops(fill)]
  IN  IF /\ type = "linear"
         /\ Has(fill, "gradientHandlePositions")
         /\ Len(fill.gradientHandlePositions) = 3
        THEN LET start == fill.gradientHandlePositions[1]
                 end == fill.gradientHandlePositions[2]
             IN  base @@ ("angle" :>
                   Atan2Degrees(end.y - start.y, end.x - start.x) + 90)
        ELSE base

MapScaleMode(fill) ==
  IF ~Has(fill, "scaleMode") THEN "fill"
  ELSE CASE fill.scaleMode = "FIT" -> "fit"
         [] fill.scaleMode = "CROP" -> "crop"
         [] fill.scaleMode = "TILE" -> "tile"
         [] OTHER -> "fill"

ParseFill(fill) ==
  CASE fill.type = "SOLID" ->
         IF ~Has(fill, "color") THEN Undefined
         ELSE FigmaColorToIR(fill.color, OpacityOf(fill))
    [] fill.type = "GRADIENT_LINEAR" -> ParseGradient(fill, "linear")
    [] fill.type = "GRADIENT_RADIAL" -> ParseGradient(fill, "radial")
    [] fill.type = "GRADIENT_ANGULAR" -> ParseGradient(fill, "angular")
    [] fill.type = "GRADIENT_DIAMOND" -> ParseGradient(fill, "angular")
    [] fill.type = "IMAGE" ->
         LET imageResult == [type |-> "image", scaleMode |-> MapScaleMode(fill)]
         IN  IF Has(fill, "imageRef") /\ fill.imageRef # ""
               THEN imageResult @@ ("url" :> <<"figma://image/", fill.imageRef>>)
               ELSE imageResult
    [] OTHER -> Undefined

\* `visible !== false`
IsVisible(paint) == ~Has(paint, "visible") \/ paint.visible

GetVisibleFillFirst(n) ==
  IF ~Has(n, "fills") \/ Len(n.fills) = 0 THEN Undefined
  ELSE LET shown == {i \in 1..Len(n.fills) : IsVisible(n.fills[i])}
       IN  IF shown = {} THEN Undefined
           ELSE n.fills[CHOOSE i \in shown : \A j \in shown : i <= j]

\* getVisibleFill(node.fills): `for (let i = fills.length - 1; i >= 0; i--)`
\* returns the first visible fill met, walking from the end
RECURSIVE VisibleFillFrom(_, _)
VisibleFillFrom(fills, i) ==
  IF i < 1 THEN Undefined
  ELSE IF IsVisible(fills[i]) THEN fills[i]
  ELSE VisibleFillFrom(fills, i - 1)

GetVisibleFill(n) ==
  IF ~Has(n, "fills") \/ Len(n.fills) = 0 THEN Undefined
  ELSE VisibleFillFrom(n.fills, Len(n.fills))

GetVisibleStrokeLast(n) ==
  IF ~Has(n, "strokes") \/ Len(n.strokes) = 0 THEN Undefined
  ELSE LET shown == {i \in 1..Len(n.strokes) : IsVisible(n.strokes[i])}
       IN  IF shown = {} THEN Undefined
           ELSE n.strokes[CHOOSE i \in shown : \A j \in shown : i >= j]

\* getVisibleStroke(node.strokes): `strokes.find(s => s.visible !== false)`
RECURSIVE Find(_, _)
Find(strokes, i) ==
  IF i > Len(strokes) THEN Undefined
  ELSE IF IsVisible(strokes[i]) THEN strokes[i]
  ELSE Find(strokes, i + 1)

GetVisibleStroke(n) ==
  IF ~Has(n, "strokes") \/ Len(n.strokes) = 0 THEN Undefined
  ELSE Find(n.strokes, 1)

Black == [type |-> "solid", r |-> 0, g |-> 0, b |-> 0, a |-> 1]

MapStrokeAlign(n) ==
  IF ~Has(n, "strokeAlign") THEN "center"
  ELSE CASE n.strokeAlign = "INSIDE" -> "inside"
         [] n.strokeAlign = "OUTSIDE" -> "outside"
         [] OTHER -> "center"

ParseStroke(stroke, n) ==
  [width |-> IF Has(n, "strokeWeight") THEN n.strokeWeight ELSE 1,
   style |-> "solid",
   color |-> IF Has(stroke, "color") THEN FigmaColorToIR(stroke.color, 1)
             ELSE Black,
   position |-> MapStrokeAlign(n)]

\* parseShadows(node.effects): visible drop and inner shadows, in order
RECURSIVE ShadowsFrom(_, _)
ShadowsFrom(effects, i) ==
  IF i > Len(effects) THEN <<>>
  ELSE LET e == effects[i]
       IN  IF IsVisible(e) /\ e.type \in {"DROP_SHADOW", "INNER_SHADOW"}
             THEN << [type |-> IF e.type = "INNER_SHADOW" THEN "inner" ELSE "drop",
                      x |-> IF Has(e, "offset") THEN e.offset.x ELSE 0,
                      y |-> IF Has(e, "offset") THEN e.offset.y ELSE 0,
                      blur |-> e.radius,
                      spread |-> IF Has(e, "spread") THEN e.spread ELSE 0,
                      color |-> IF Has(e, "color")
                                  THEN FigmaColorToIR(e.color, 1)
                                  ELSE [type |-> "solid", r |-> 0, g |-> 0,
                                        b |-> 0, a |-> <<"0.15">>]] >>
                  \o ShadowsFrom(effects, i + 1)
             ELSE ShadowsFrom(effects, i + 1)

ParseShadows(n) == IF ~Has(n, "effects") THEN <<>> ELSE ShadowsFrom(n.effects, 1)

\* parseTextStyle; the line height is counted in tenths of a pixel, which is
\* what `Math.round(x * 10) / 10` keeps
ParseTextStyle(ts) ==
  [family |-> ts.fontFamily,
   size |-> ts.fontSize,
   weight |-> ts.fontWeight,
   lineHeight |->
     IF Has(ts, "lineHeightPx") /\ ts.lineHeightPx # 0
       THEN [tenths |-> ts.lineHeightPx * 10]
     ELSE IF Has(ts, "lineHeightPercentFontSize")
             /\ ts.lineHeightPercentFontSize # 0
       THEN [tenths |-> (ts.lineHeightPercentFontSize * ts.fontSize + 5) \div 10]
     ELSE [auto |-> TRUE],
   letterSpacing |-> IF Has(ts, "letterSpacing") THEN ts.letterSpacing ELSE 0,
   align |-> IF ~Has(ts, "textAlignHorizontal") THEN "left"
             ELSE CASE ts.textAlignHorizontal = "CENTER" -> "center"
                    [] ts.textAlignHorizontal = "RIGHT" -> "right"
                    [] ts.textAlignHorizontal = "JUSTIFIED" -> "justify"
                    [] OTHER -> "left",
   decoration |-> IF ~Has(ts, "textDecoration") THEN "none"
                  ELSE CASE ts.textDecoration = "UNDERLINE" -> "underline"
                         [] ts.textDecoration = "STRIKETHROUGH" -> "line-through"
                         [] OTHER -> "none",
   transform |-> IF ~Has(ts, "textCase") THEN "none"
                 ELSE CASE ts.textCase = "UPPER" -> "uppercase"
                        [] ts.textCase = "LOWER" -> "lowercase"
                        [] ts.textCase = "TITLE" -> "capitalize"
                        [] OTHER -> "none"]

\* parseStyle(node), with the two selections as parameters
ParseStyleWith(n, bgFill, stroke) ==
  LET opacity ==
        IF Has(n, "opacity") /\ n.opacity < 1
          THEN "opacity" :> n.opacity ELSE EmptyObject
      bg == IF ~IsUndefined(bgFill) THEN ParseFill(bgFill) ELSE Undefined
      background ==
        IF ~IsUndefined(bg) THEN "background" :> bg ELSE EmptyObject
      border ==
        IF ~IsUndefined(stroke) /\ Has(n, "strokeWeight") /\ n.strokeWeight # 0
          THEN "border" :> ParseStroke(stroke, n) ELSE EmptyObject
      borderRadius ==
        IF Has(n, "rectangleCornerRadii")
          THEN LET c == n.rectangleCornerRadii
               IN  IF c[1] = c[2] /\ c[2] = c[3] /\ c[3] = c[4]
                     THEN "borderRadius" :> [scalar |-> c[1]]
                     ELSE "borderRadius" :> [corners |-> c]
        ELSE IF Has(n, "cornerRadius") /\ n.cornerRadius > 0
          THEN "borderRadius" :> [scalar |-> n.cornerRadius]
        ELSE EmptyObject
      shadows == ParseShadows(n)
      shadow == IF Len(shadows) > 0 THEN "shadow" :> shadows ELSE EmptyObject
      overflow ==
        IF Has(n, "clipContent") /\ n.clipContent = TRUE
          THEN "overflow" :> "hidden" ELSE EmptyObject
      font ==
        IF n.type = "TEXT" /\ Has(n, "style")
          THEN "font" :> ParseTextStyle(n.style) ELSE EmptyObject
  IN  opacity @@ background @@ border @@ borderRadius @@ shadow @@ overflow
        @@ font

ParseStyle(n) == ParseStyleWith(n, GetVisibleFill(n), GetVisibleStroke(n))

Red == [r |-> 1, g |-> 0, b |-> 0, a |-> 1]
Blue == [r |-> 0, g |-> 0, b |-> 1, a |-> 1]

\* fills of every kind parseFill tells apart, shown, hidden and unmarked
FigmaFills ==
  { [type |-> "SOLID", color |-> Red],
    [type |-> "SOLID", color |-> Blue, visible |-> TRUE, opacity |-> 0],
    [type |-> "SOLID", color |-> Red, visible |-> FALSE],
    [type |-> "SOLID"],
    [type |-> "GRADIENT_LINEAR",
     gradientStops |-> << [color |-> Blue, position |-> 0] >>,
     gradientHandlePositions |->
       << [x |-> 0, y |-> 0], [x |-> 1, y |-> 0], [x |-> 0, y |-> 1] >>],
    [type |-> "IMAGE", imageRef |-> "ref", scaleMode |-> "FIT"],
    [type |-> "EMOJI"] }

FigmaStrokes ==
  { [type |-> "SOLID", color |-> Red],
    [type |-> "SOLID", color |-> Blue, visible |-> TRUE],
    [type |-> "SOLID", color |-> Blue, visible |-> FALSE],
    [type |-> "SOLID"] }

MaxFills == 2
MaxStrokes == 2

ListsOf(S, n) == UNION { [1..k -> S] : k \in 0..n }

\* the rest of a node: with and without a stroke weight, a corner radius, an
\* opacity, effects, a clip, a text style
NodeBases ==
  { [type |-> "FRAME"],
    [type |-> "FRAME", strokeWeight |-> 2, strokeAlign |-> "INSIDE"],
    [type |-> "RECTANGLE", strokeWeight |-> 0, opacity |-> 0,
     cornerRadius |-> 8, clipContent |-> TRUE],
    [type |-> "RECTANGLE", strokeWeight |-> 1, opacity |-> 1,
     rectangleCornerRadii |-> <<4, 4, 4, 0>>,
     effects |-> << [type |-> "DROP_SHADOW", radius |-> 4, color |-> Red,
                     offset |-> [x |-> 0, y |-> 2]],
                    [type |-> "LAYER_BLUR", radius |-> 4] >>],
    [type |-> "TEXT", strokeWeight |-> 2, strokeAlign |-> "OUTSIDE",
     rectangleCornerRadii |-> <<4, 4, 4, 4>>,
     style |-> [fontFamily |-> "Inter", fontSize |-> 16, fontWeight |-> 400,
                lineHeightPercentFontSize |-> 150,
                textAlignHorizontal |-> "CENTER"]] }

FigmaNodes ==
  NodeBases \cup
  { base @@ ("fills" :> fills) @@ ("strokes" :> strokes) :
      base \in NodeBases,
      fills \in ListsOf(FigmaFills, MaxFills),
      strokes \in ListsOf(FigmaStrokes, MaxStrokes) }

InitStyle ==
  /\ DiffUnused
  /\ AdapterUnused
  /\ BuilderUnused
  /\ RetryUnused
  /\ NodeUnused
  /\ TokenUnused
  /\ LayoutUnused
  /\ VariantUnused
  /\ pc = "start"
  /\ node \in FigmaNodes
  /\ style = EmptyObject

\* parseStyle(node)
ParseStyleCall ==
  /\ pc = "start"
  /\ style' = ParseStyle(node)
  /\ pc' = "styled"
  /\ UNCHANGED node
  /\ UNCHANGED exceptStyle

NextStyle == ParseStyleCall

SpecStyle == InitStyle /\ [][NextStyle]_vars

\* the positions of the paints with visibility not false
Shown(paints) == {i \in 1..Len(paints) : IsVisible(paints[i])}

Fills == IF Has(node, "fills") THEN node.fills ELSE <<>>
Strokes == IF Has(node, "strokes") THEN node.strokes ELSE <<>>

\* a paint the normalizer can turn into a background
Convertible(fill) == ~IsUndefined(ParseFill(fill))

HasStrokeWeight == Has(node, "strokeWeight") /\ node.strokeWeight # 0

\* C14: the border is the conversion of the first stroke with visibility not
\* false, never of a later one, whatever the fills are: a node has a border
\* exactly when it has such a stroke and a stroke weight, and the border is
\* then built from that first stroke.
C14_BorderFromFirstVisible ==
  pc = "styled" =>
    /\ Has(style, "border") <=> (Shown(Strokes) # {} /\ HasStrokeWeight)
    /\ Has(style, "border") =>
         style.border = ParseStroke(Strokes[Least(Shown(Strokes))], node)

\* two visible strokes of different colours under two visible fills: the
\* border has the colour of the first stroke, the background is the last fill
C14_Witness ==
  /\ pc = "styled"
  /\ Len(Strokes) = 2
  /\ Shown(Strokes) = {1, 2}
  /\ ParseStroke(Strokes[1], node) # ParseStroke(Strokes[2], node)
  /\ Has(style, "border")
  /\ style.border = ParseStroke(Strokes[1], node)
  /\ Shown(Fills) = {1, 2}
  /\ Has(style, "background")
  /\ style.background = ParseFill(Fills[2])
  /\ ParseFill(Fills[1]) # ParseFill(Fills[2])

----------------------------------------------------------------------------
(* The layout normalizer (parser/layout-parser.ts): parseLayout            *)

\* `node.<field>` is truthy, for a number that may be missing
TruthyNumber(obj, field) == Has(obj, field) /\ obj[field] # 0

\* `node.<field> ?? 0`
OrZero(obj, field) == IF Has(obj, field) THEN obj[field] ELSE 0

\* `bbox ? (axis === 'horizontal' ? bbox.width : bbox.height) : undefined`
HasPxValue(n) == Has(n, "absoluteBoundingBox")

PxValue(n, axis) ==
  IF axis = "horizontal" THEN n.absoluteBoundingBox.width
  ELSE n.absoluteBoundingBox.height

SizingField(axis) ==
  IF axis = "horizontal" THEN "layoutSizingHorizontal"
  ELSE "layoutSizingVertical"

\* `pxValue !== undefined ? { type: 'fixed', value: pxValue } : { type: 'auto' }`
FixedOrAuto(n, axis) ==
  IF HasPxValue(n) THEN [type |-> "fixed", value |-> PxValue(n, axis)]
  ELSE [type |-> "auto"]

ParseSizingKeepsValue(n, axis) ==
  IF ~Has(n, SizingField(axis)) THEN FixedOrAuto(n, axis)
  ELSE CASE n[SizingField(axis)] = "FILL" ->
              IF HasPxValue(n) THEN [type |-> "fill", value |-> PxValue(n, axis)]
              ELSE [type |-> "fill"]
         [] n[SizingField(axis)] = "HUG" -> [type |-> "hug"]
         [] OTHER -> FixedOrAuto(n, axis)

ParseSizing(n, axis) ==
  IF ~Has(n, SizingField(axis)) THEN FixedOrAuto(n, axis)
  ELSE CASE n[SizingField(axis)] = "FILL" -> [type |-> "fill"]
         [] n[SizingField(axis)] = "HUG" -> [type |-> "hug"]
         [] n[SizingField(axis)] = "FIXED" -> FixedOrAuto(n, axis)
         [] OTHER -> FixedOrAuto(n, axis)

MapPrimaryAlign(n) ==
  IF ~Has(n, "primaryAxisAlignItems") THEN "flex-start"
  ELSE CASE n.primaryAxisAlignItems = "MIN" -> "flex-start"
         [] n.primaryAxisAlignItems = "CENTER" -> "center"
         [] n.primaryAxisAlignItems = "MAX" -> "flex-end"
         [] n.primaryAxisAlignItems = "SPACE_BETWEEN" -> "space-between"
         [] OTHER -> "flex-start"

MapCounterAlign(n) ==
  IF ~Has(n, "counterAxisAlignItems") THEN "flex-start"
  ELSE CASE n.counterAxisAlignItems = "MIN" -> "flex-start"
         [] n.counterAxisAlignItems = "CENTER" -> "center"
         [] n.counterAxisAlignItems = "MAX" -> "flex-end"
         [] n.counterAxisAlignItems = "BASELINE" -> "baseline"
         [] OTHER -> "flex-start"

ParseFlexLayout(n) ==
  LET direction ==
        "direction" :> (IF n.layoutMode = "HORIZONTAL" THEN "row" ELSE "column")
      gap == IF TruthyNumber(n, "itemSpacing")
               THEN "gap" :> n.itemSpacing ELSE EmptyObject
      wrap == IF Has(n, "layoutWrap") /\ n.layoutWrap = "WRAP"
                THEN "wrap" :> TRUE ELSE EmptyObject
  IN  direction @@ gap @@ wrap @@ ("justify" :> MapPrimaryAlign(n))
        @@ ("align" :> MapCounterAlign(n))

\* `!node.visible && node.visible !== undefined`
ResolveDisplay(n) ==
  IF Has(n, "visible") /\ ~n.visible THEN "none"
  ELSE IF n.type = "TEXT" THEN "inline"
  ELSE "block"

HasAutoLayout(n) ==
  Has(n, "layoutMode") /\ n.layoutMode \in {"HORIZONTAL", "VERTICAL"}

\* parseLayout(node, isAbsoluteChild); Object.assign and the later
\* assignments overwrite, so what is assigned later stands to the left
ParseLayout(n, absoluteChild) ==
  LET base ==
        [display |-> IF HasAutoLayout(n) THEN "flex" ELSE ResolveDisplay(n),
         position |-> IF absoluteChild THEN "absolute" ELSE "relative",
         width |-> ParseSizing(n, "horizontal"),
         height |-> ParseSizing(n, "vertical")]
      flex == IF HasAutoLayout(n) THEN ParseFlexLayout(n) ELSE EmptyObject
      offsets ==
        IF absoluteChild /\ Has(n, "absoluteBoundingBox")
          THEN ("left" :> n.absoluteBoundingBox.x)
                 @@ ("top" :> n.absoluteBoundingBox.y)
          ELSE EmptyObject
      padding ==
        IF \/ TruthyNumber(n, "paddingTop") \/ TruthyNumber(n, "paddingRight")
           \/ TruthyNumber(n, "paddingBottom") \/ TruthyNumber(n, "paddingLeft")
          THEN "padding" :> << OrZero(n, "paddingTop"), OrZero(n, "paddingRight"),
                               OrZero(n, "paddingBottom"), OrZero(n, "paddingLeft") >>
          ELSE EmptyObject
  IN  padding @@ offsets @@ flex @@ base

SizingModes == {"FIXED", "FILL", "HUG"}

BoundingBoxes ==
  { [x |-> 0, y |-> 0, width |-> 0, height |-> 10],
    [x |-> 5, y |-> 7, width |-> 100, height |-> 50] }

\* what parseLayout reads besides the sizing: the layout mode and what goes
\* with it
LayoutBases ==
  { [type |-> "FRAME"],
    [type |-> "TEXT", visible |-> TRUE],
    [type |-> "FRAME", visible |-> FALSE, layoutMode |-> "NONE",
     paddingTop |-> 0],
    [type |-> "FRAME", layoutMode |-> "HORIZONTAL", itemSpacing |-> 8,
     layoutWrap |-> "WRAP", primaryAxisAlignItems |-> "SPACE_BETWEEN",
     counterAxisAlignItems |-> "BASELINE", paddingTop |-> 4, paddingLeft |-> 2],
    [type |-> "FRAME", layoutMode |-> "VERTICAL", itemSpacing |-> 0,
     primaryAxisAlignItems |-> "CENTER"] }

\* an optional property: every value of the set, and no property at all
Optional(field, values) == {EmptyObject} \cup {field :> v : v \in values}

LayoutNodes ==
  { base @@ h @@ v @@ box :
      base \in LayoutBases,
      h \in Optional("layoutSizingHorizontal", SizingModes),
      v \in Optional("layoutSizingVertical", SizingModes),
      box \in Optional("absoluteBoundingBox", BoundingBoxes) }

InitLayout ==
  /\ DiffUnused
  /\ AdapterUnused
  /\ BuilderUnused
  /\ RetryUnused
  /\ NodeUnused
  /\ TokenUnused
  /\ VariantUnused
  /\ pc = "start"
  /\ node \in LayoutNodes
  /\ style = EmptyObject
  /\ isAbsoluteChild \in BOOLEAN
  /\ layout = EmptyObject

\* parseLayout(node, isAbsoluteChild)
ParseLayoutCall ==
  /\ pc = "start"
  /\ layout' = ParseLayout(node, isAbsoluteChild)
  /\ pc' = "laidout"
  /\ UNCHANGED <<node, isAbsoluteChild>>
  /\ UNCHANGED exceptLayout

NextLayout == ParseLayoutCall

SpecLayout == InitLayout /\ [][NextLayout]_vars

\* C15: in every layout the normalizer returns, the width and the height
\* carry a numeric value exactly when their size type is fixed.
C15_ValueIffFixed ==
  pc = "laidout" =>
    \A size \in {layout.width, layout.height} :
      Has(size, "value") <=> size.type = "fixed"

\* a node with a bounding box, sized FILL on one axis and unsized on the
\* other: the width has no value, the height is fixed with the box's height
C15_Witness ==
  /\ pc = "laidout"
  /\ Has(node, "absoluteBoundingBox")
  /\ Has(node, "layoutSizingHorizontal")
  /\ node.layoutSizingHorizontal = "FILL"
  /\ ~Has(node, "layoutSizingVertical")
  /\ layout.width = [type |-> "fill"]
  /\ layout.height = [type |-> "fixed", value |-> node.absoluteBoundingBox.height]

----------------------------------------------------------------------------
(* The variant extractor (extractVariantProps, parseVariantName,           *)
(* inferPropType, toCamelCase); here a string is the sequence of its       *)
(* characters                                                              *)

UpperCase == <<"A", "B", "C", "D", "E", "F", "G", "H", "I", "J", "K", "L", "M", "N",
              "O", "P", "Q", "R", "S", "T", "U", "V", "W", "X", "Y", "Z">>
LowerCase == <<"a", "b", "c", "d", "e", "f", "g", "h", "i", "j", "k", "l", "m", "n",
              "o", "p", "q", "r", "s", "t", "u", "v", "w", "x", "y", "z">>

CharToLowerCase(c) ==
  IF \E i \in 1..Len(UpperCase) : UpperCase[i] = c
    THEN LowerCase[CHOOSE i \in 1..Len(UpperCase) : UpperCase[i] = c]
    ELSE c

CharToUpperCase(c) ==
  IF \E i \in 1..Len(LowerCase) : LowerCase[i] = c
    THEN UpperCase[CHOOSE i \in 1..Len(LowerCase) : LowerCase[i] = c]
    ELSE c

\* String.prototype.toLowerCase, toUpperCase
ToLowerCase(str) == [i \in 1..Len(str) |-> CharToLowerCase(str[i])]
ToUpperCase(str) == [i \in 1..Len(str) |-> CharToUpperCase(str[i])]

\* String.prototype.split on any of the separator characters
RECURSIVE SplitOnAcc(_, _, _, _, _)
SplitOnAcc(str, seps, i, cur, acc) ==
  IF i > Len(str) THEN Append(acc, cur)
  ELSE IF str[i] \in seps THEN SplitOnAcc(str, seps, i + 1, <<>>, Append(acc, cur))
  ELSE SplitOnAcc(str, seps, i + 1, Append(cur, str[i]), acc)

SplitOn(str, seps) == SplitOnAcc(str, seps, 1, <<>>, <<>>)

\* String.prototype.indexOf of a character that occurs, zero-based
IndexOf(str, c) ==
  (CHOOSE i \in 1..Len(str) :
     str[i] = c /\ \A j \in 1..(i - 1) : str[j] # c) - 1

HasEquals(part) == \E i \in 1..Len(part) : part[i] = "="

\* `.filter(part => part.includes('='))`
RECURSIVE PartsWithEquals(_)
PartsWithEquals(parts) ==
  IF parts = <<>> THEN <<>>
  ELSE IF HasEquals(Head(parts))
    THEN <<Head(parts)>> \o PartsWithEquals(Tail(parts))
  ELSE PartsWithEquals(Tail(parts))

\* parseVariantName("State=Hover, Size=Small")
ParseVariantName(str) ==
  LET parts == SplitOn(str, {","})
      trimmed == [i \in 1..Len(parts) |-> Trim(parts[i])]
      pairs == PartsWithEquals(trimmed)
  IN  [i \in 1..Len(pairs) |->
         LET idx == IndexOf(pairs[i], "=")
         IN  [key |-> Trim(SubSeq(pairs[i], 1, idx)),
              value |-> Trim(SliceFrom(pairs[i], idx + 1))]]

\* toCamelCase(str)
CamelWord(word, i) ==
  IF i = 1 THEN ToLowerCase(word)
  ELSE ToUpperCase(SubSeq(word, 1, 1)) \o ToLowerCase(SliceFrom(word, 1))

ToCamelCase(str) ==
  LET split == SplitOn(str, WhiteSpace \cup {"_", "-"})
  IN  Join([i \in 1..Len(split) |-> CamelWord(split[i], i)], <<>>)

\* `if (!propMap.has(key)) propMap.set(key, new Set()); propMap.get(key).add(value)`
\* a Map and its Sets keep the order of first insertion
SetAdd(set, value) ==
  IF \E i \in 1..Len(set) : set[i] = value THEN set ELSE Append(set, value)

PropMapAdd(propMap, key, value) ==
  LET with == IF \E i \in 1..Len(propMap) : propMap[i].key = key THEN propMap
              ELSE Append(propMap, [key |-> key, values |-> <<>>])
  IN  [i \in 1..Len(with) |->
         IF with[i].key = key
           THEN [key |-> key, values |-> SetAdd(with[i].values, value)]
           ELSE with[i]]

RECURSIVE PropMapAddAll(_, _, _)
PropMapAddAll(propMap, pairs, i) ==
  IF i > Len(pairs) THEN propMap
  ELSE PropMapAddAll(PropMapAdd(propMap, pairs[i].key, pairs[i].value),
                     pairs, i + 1)

\* one turn of `for (const child of componentSetNode.children)`
CollectChild(propMap, child) ==
  IF child.type # "COMPONENT" THEN propMap
  ELSE IF Has(child, "variantProperties")
    THEN PropMapAddAll(propMap, child.variantProperties, 1)
  ELSE PropMapAddAll(propMap, ParseVariantName(child.name), 1)

RECURSIVE CollectChildren(_, _, _)
CollectChildren(propMap, children, i) ==
  IF i > Len(children) THEN propMap
  ELSE CollectChildren(CollectChild(propMap, children[i]), children, i + 1)

Word_true == <<"t", "r", "u", "e">>
Word_false == <<"f", "a", "l", "s", "e">>

\* `['on', 'off', 'yes', 'no', 'show', 'hide']`
BooleanLike ==
  { <<"o", "n">>, <<"o", "f", "f">>, <<"y", "e", "s">>, <<"n", "o">>,
    <<"s", "h", "o", "w">>, <<"h", "i", "d", "e">> }

\* inferPropType(values)
InferPropType(values) ==
  LET lower == [i \in 1..Len(values) |-> ToLowerCase(values[i])]
  IN  IF \A i \in 1..Len(lower) : lower[i] = Word_true \/ lower[i] = Word_false
        THEN "boolean"
      ELSE IF Len(values) = 2 /\ \E i \in 1..Len(lower) : lower[i] \in BooleanLike
        THEN "boolean"
      ELSE IF Len(values) = 1 THEN "string"
      ELSE "enum"

\* extractVariantProps(componentSetNode)
ExtractVariantProps(n) ==
  IF ~Has(n, "children") \/ Len(n.children) = 0 THEN <<>>
  ELSE LET propMap == CollectChildren(<<>>, n.children, 1)
       IN  [i \in 1..Len(propMap) |->
              [name |-> ToCamelCase(propMap[i].key),
               type |-> InferPropType(propMap[i].values),
               values |-> propMap[i].values,
               defaultValue |-> propMap[i].values[1]]]

Key_Active == <<"A", "c", "t", "i", "v", "e">>
Key_Size == <<"I", "c", "o", "n", " ", "S", "i", "z", "e">>

\* the values a variant property takes
VariantValues ==
  { <<"T", "r", "u", "e">>, <<"F", "a", "l", "s", "e">>, <<"T", "R", "U", "E">>,
    <<"O", "n">>, <<"O", "f", "f">>, <<"S">>, <<"M">> }

\* the children of a component set: variants with a property map, variants
\* with a `Key=Value` name, a variant without a pair, a child that is none
VariantChildren ==
  { [type |-> "COMPONENT", name |-> <<>>,
     variantProperties |-> << [key |-> Key_Active, value |-> v] >>] :
      v \in VariantValues }
  \cup
  { [type |-> "COMPONENT", name |-> <<>>,
     variantProperties |-> << [key |-> Key_Size, value |-> <<"S">>],
                              [key |-> Key_Active, value |-> <<"F", "a", "l", "s", "e">>] >>],
    [type |-> "COMPONENT", name |-> <<"A", "c", "t", "i", "v", "e", "=", "T", "r", "u", "e">>],
    [type |-> "COMPONENT",
     name |-> <<"I", "c", "o", "n", " ", "S", "i", "z", "e", "=", "M", ",", " ", "A", "c", "t", "i", "v", "e", " ", "=", " ", "O", "f", "f">>],
    [type |-> "COMPONENT", name |-> <<"D", "e", "f", "a", "u", "l", "t">>],
    [type |-> "FRAME", name |-> <<"A", "c", "t", "i", "v", "e", "=", "O", "n">>] }

MaxVariants == 3

ComponentSets ==
  { [type |-> "COMPONENT_SET"] } \cup
  { [type |-> "COMPONENT_SET", children |-> c] :
      c \in ListsOf(VariantChildren, MaxVariants) }

InitVariant ==
  /\ DiffUnused
  /\ AdapterUnused
  /\ BuilderUnused
  /\ RetryUnused
  /\ NodeUnused
  /\ TokenUnused
  /\ LayoutUnused
  /\ pc = "start"
  /\ node \in ComponentSets
  /\ style = EmptyObject
  /\ props = <<>>

\* extractVariantProps(componentSetNode)
ExtractVariantPropsCall ==
  /\ pc = "start"
  /\ props' = ExtractVariantProps(node)
  /\ pc' = "props"
  /\ UNCHANGED node
  /\ UNCHANGED exceptVariant

NextVariant == ExtractVariantPropsCall

SpecVariant == InitVariant /\ [][NextVariant]_vars

\* the distinct values of a property, compared without regard to case
LowerValues(prop) == {ToLowerCase(prop.values[i]) : i \in 1..Len(prop.values)}

\* C18: a variant key is typed boolean exactly when its distinct values,
\* compared without regard to case, are true and false, both of them.
C18_BooleanIffTrueAndFalse ==
  pc = "props" =>
    \A i \in 1..Len(props) :
      props[i].type = "boolean" <=> LowerValues(props[i]) = {Word_true, Word_false}

\* C19: a variant key with exactly one distinct value over all the variant
\* children is typed string.
C19_SingleValueIsString ==
  pc = "props" =>
    \A i \in 1..Len(props) :
      Len(props[i].values) = 1 => props[i].type = "string"

----------------------------------------------------------------------------
(* The node parser (parser/node-parser.ts): parseNode and                  *)
(* detectRepeatingPattern                                                  *)

\* resolveNodeType(node).type, the kind of the IR node
ResolveNodeType(n) ==
  CASE n.type \in {"COMPONENT", "COMPONENT_SET"} -> "component"
    [] n.type = "INSTANCE" -> "instance"
    [] n.type \in {"FRAME", "GROUP"} -> "container"
    [] n.type = "TEXT" -> "text"
    [] n.type \in {"RECTANGLE", "ELLIPSE", "POLYGON", "STAR"} ->
         IF /\ Has(n, "fills")
            /\ \E i \in 1..Len(n.fills) :
                 n.fills[i].type = "IMAGE" /\ IsVisible(n.fills[i])
           THEN "image" ELSE "container"
    [] n.type \in {"VECTOR", "BOOLEAN_OPERATION", "LINE"} -> "icon"
    [] OTHER -> "container"

\* `name.replace(/\d+$/, '')`: the digits that end the name are dropped
RECURSIVE StripTrailingDigits(_)
StripTrailingDigits(str) ==
  IF str # <<>> /\ str[Len(str)] \in Range(Digit)
    THEN StripTrailingDigits(SubSeq(str, 1, Len(str) - 1))
    ELSE str

\* `name.replace(/\d+$/, '').trim()`
BaseName(str) == Trim(StripTrailingDigits(str))

ChildrenOf(n) == IF Has(n, "children") THEN n.children ELSE <<>>

\* `c.type === firstChild.type` and the base names are equal
SimilarToFirst(children, i) ==
  /\ children[i].type = children[1].type
  /\ BaseName(children[1].name) = BaseName(children[i].name)

\* the least number of similar children that makes a pattern
RepeatThreshold == 3

\* detectRepeatingPattern(node)
DetectRepeatingPattern(n) ==
  LET children == ChildrenOf(n)
  IN  IF Len(children) < RepeatThreshold THEN FALSE
      ELSE Cardinality({i \in 1..Len(children) : SimilarToFirst(children, i)})
             >= RepeatThreshold

\* `(FRAME or GROUP) && layoutMode === undefined || layoutMode === 'NONE'`
CurrentHasNoLayout(n) ==
  \/ n.type \in {"FRAME", "GROUP"} /\ ~Has(n, "layoutMode")
  \/ Has(n, "layoutMode") /\ n.layoutMode = "NONE"

HasAbsoluteChildren(n) ==
  /\ CurrentHasNoLayout(n)
  /\ Len(ChildrenOf(n)) > 0
  /\ n.type \notin {"TEXT", "VECTOR"}

\* `.filter(child => child.visible !== false)`
RECURSIVE VisibleOnly(_)
VisibleOnly(children) ==
  IF children = <<>> THEN <<>>
  ELSE IF IsVisible(Head(children))
    THEN <<Head(children)>> \o VisibleOnly(Tail(children))
  ELSE VisibleOnly(Tail(children))

\* `\w` of a regular expression
IsWordChar(c) ==
  \/ \E i \in 1..Len(UpperCase) : UpperCase[i] = c
  \/ \E i \in 1..Len(LowerCase) : LowerCase[i] = c
  \/ \E i \in 1..Len(Digit) : Digit[i] = c
  \/ c = "_"

\* the literal part of PROP_CONVENTION_RE = /\[prop:(\w+)\]/i
PROP_OPEN == <<"[", "p", "r", "o", "p", ":">>

\* the end of the longest run of word characters that starts at i
RECURSIVE WordRunEnd(_, _)
WordRunEnd(str, i) ==
  IF i <= Len(str) /\ IsWordChar(str[i]) THEN WordRunEnd(str, i + 1) ELSE i - 1

\* PROP_CONVENTION_RE matches at position i: the opening in any case, one
\* or more word characters and the closing bracket
MatchesPropAt(str, i) ==
  LET from == i + Len(PROP_OPEN)
      to == WordRunEnd(str, from)
  IN  /\ from - 1 <= Len(str)
      /\ ToLowerCase(SubSeq(str, i, from - 1)) = PROP_OPEN
      /\ to >= from
      /\ to + 1 <= Len(str)
      /\ str[to + 1] = "]"

\* extractTextPropConvention(nodeName, text): the first match gives the
\* prop name
ExtractTextPropConvention(nodeName, text) ==
  LET at == {i \in 1..Len(nodeName) : MatchesPropAt(nodeName, i)}
  IN  IF at = {} THEN [cleanText |-> text]
      ELSE LET i == CHOOSE k \in at : \A j \in at : k <= j
               from == i + Len(PROP_OPEN)
           IN  [propName |-> SubSeq(nodeName, from, WordRunEnd(nodeName, from)),
                cleanText |-> text]

\* the longest text that is a prop candidate
PropCandidateMaxLength == 50

\* parseContent(node, warnings): the IRContent, or undefined
ParseContent(n) ==
  IF n.type # "TEXT" \/ ~Has(n, "characters") THEN Undefined
  ELSE LET text == n.characters
           found == ExtractTextPropConvention(n.name, text)
           isPropCandidate ==
             \/ Has(found, "propName")
             \/ /\ Len(text) <= PropCandidateMaxLength
                /\ ~Includes(text, <<NL>>)
       IN  (IF Has(found, "propName") /\ found.propName # <<>>
              THEN "propName" :> found.propName ELSE EmptyObject)
           @@ [text |-> found.cleanText, isPropCandidate |-> isPropCandidate]

\* the warning parseContent pushes for a text of mixed styles
ContentWarnings(n) ==
  IF /\ n.type = "TEXT"
     /\ Has(n, "characters")
     /\ Has(n, "styleOverrideTable")
     /\ n.styleOverrideTable # EmptyObject
    THEN << <<"mixed text styles", n.name>> >> ELSE <<>>

\* the context of the root: `{ parentHasNoLayout: false, depth: 0 }`
RootContext == [parentHasNoLayout |-> FALSE, depth |-> 0]

\* parseNode(node, ctx): the kind, the layout, the style, the props, the
\* meta and the children of the IR node
RECURSIVE ParseNode(_, _)
ParseNode(n, ctx) ==
  LET absoluteChild == ctx.parentHasNoLayout /\ n.type # "TEXT"
      parsed == ParseLayout(n, absoluteChild)
      corrected ==
        IF absoluteChild /\ Has(ctx, "parentBBox") /\ Has(n, "absoluteBoundingBox")
          THEN ("left" :> (n.absoluteBoundingBox.x - ctx.parentBBox.x))
                 @@ ("top" :> (n.absoluteBoundingBox.y - ctx.parentBBox.y))
                 @@ parsed
          ELSE parsed
      kind == ResolveNodeType(n)
      variantProps ==
        IF n.type = "COMPONENT_SET" \/ kind = "component"
          THEN "props" :> ExtractVariantProps(n) ELSE EmptyObject
      meta ==
        [isComponentRoot |-> n.type = "COMPONENT",
         isVariantContainer |-> n.type = "COMPONENT_SET",
         isRepeating |-> DetectRepeatingPattern(n),
         hasAbsoluteChildren |-> HasAbsoluteChildren(n),
         warnings |-> ContentWarnings(n)
                        \o (IF HasAbsoluteChildren(n)
                              THEN << <<"no auto layout", n.name>> >>
                              ELSE <<>>)]
      content ==
        IF IsUndefined(ParseContent(n)) THEN EmptyObject
        ELSE "content" :> ParseContent(n)
      childBBox ==
        IF Has(n, "absoluteBoundingBox")
          THEN "parentBBox" :> [x |-> n.absoluteBoundingBox.x,
                                y |-> n.absoluteBoundingBox.y]
        ELSE IF Has(ctx, "parentBBox") THEN "parentBBox" :> ctx.parentBBox
        ELSE EmptyObject
      childCtx ==
        childBBox @@ [parentHasNoLayout |-> CurrentHasNoLayout(n),
                      depth |-> ctx.depth + 1]
      shown == VisibleOnly(ChildrenOf(n))
  IN  variantProps @@ content @@
      [type |-> kind,
       layout |-> corrected,
       style |-> ParseStyle(n),
       children |-> [i \in 1..Len(shown) |-> ParseNode(shown[i], childCtx)],
       meta |-> meta]

Leaf == [type |-> "TEXT", name |-> <<"L", "a", "b", "e", "l">>]

\* the children of a container: numbered items, one of them hidden, a text
\* of the same name, a frame of another name, and two frames of different
\* names but of the same child count and direction
FigmaChildren ==
  { [type |-> "FRAME", name |-> <<"I", "t", "e", "m", " ", "1">>],
    [type |-> "FRAME", name |-> <<"I", "t", "e", "m", " ", "2", "2">>],
    [type |-> "FRAME", name |-> <<"I", "t", "e", "m", " ", "3">>, visible |-> FALSE],
    [type |-> "TEXT", name |-> <<"I", "t", "e", "m", " ", "4">>],
    [type |-> "FRAME", name |-> <<"T", "i", "t", "l", "e">>],
    [type |-> "FRAME", name |-> <<"C", "a", "r", "d">>, layoutMode |-> "VERTICAL",
     children |-> <<Leaf>>],
    [type |-> "FRAME", name |-> <<"T", "i", "l", "e">>, layoutMode |-> "VERTICAL",
     children |-> <<Leaf>>] }

MaxChildren == 4

Containers ==
  { base @@ ("children" :> c) :
      base \in { [type |-> "FRAME", name |-> <<"L", "i", "s", "t">>],
                 [type |-> "FRAME", name |-> <<"L", "i", "s", "t">>,
                  layoutMode |-> "VERTICAL",
                  absoluteBoundingBox |->
                    [x |-> 5, y |-> 7, width |-> 100, height |-> 50]] },
      c \in ListsOf(FigmaChildren, MaxChildren) }

InitNode ==
  /\ DiffUnused
  /\ AdapterUnused
  /\ BuilderUnused
  /\ RetryUnused
  /\ TokenUnused
  /\ LayoutUnused
  /\ VariantUnused
  /\ pc = "start"
  /\ node \in Containers
  /\ style = EmptyObject
  /\ ir = EmptyObject

\* parseNode(node)
ParseNodeCall ==
  /\ pc = "start"
  /\ ir' = ParseNode(node, RootContext)
  /\ pc' = "parsed"
  /\ UNCHANGED node
  /\ UNCHANGED exceptNode

NextNode == ParseNodeCall

SpecNode == InitNode /\ [][NextNode]_vars

\* the layout direction of a source node, if it has one
DirectionOf(n) == IF HasAutoLayout(n) THEN n.layoutMode ELSE "none"

\* two siblings are the same structure: the same kind, and either the same
\* child count and layout direction or the same name without its numeric
\* suffix
SameStructure(a, b) ==
  /\ ResolveNodeType(a) = ResolveNodeType(b)
  /\ \/ /\ Len(VisibleOnly(ChildrenOf(a))) = Len(VisibleOnly(ChildrenOf(b)))
        /\ DirectionOf(a) = DirectionOf(b)
     \/ BaseName(a.name) = BaseName(b.name)

\* the source children that became the children of the IR node
ShownChildren == VisibleOnly(ChildrenOf(node))

\* some n of the siblings are pairwise the same structure
HasSameStructure(siblings, n) ==
  \E S \in SUBSET (1..Len(siblings)) :
    /\ Cardinality(S) >= n
    /\ \A i, j \in S : SameStructure(siblings[i], siblings[j])

\* C16: an IR node has isRepeating only if at least three of its children are
\* structurally identical; with two such children and no more it is false.
C16_RepeatingOnlyIfThree ==
  pc = "parsed" =>
    /\ Len(ir.children) = Len(ShownChildren)
    /\ ir.meta.isRepeating => HasSameStructure(ShownChildren, 3)

\* C17: a container with at least three siblings of the same structure has
\* isRepeating, wherever the siblings stand among the children.
C17_ThreeSameStructureIsRepeating ==
  pc = "parsed" =>
    (HasSameStructure(ShownChildren, 3) => ir.meta.isRepeating)

----------------------------------------------------------------------------
(* The Emotion css-prop adapter (adapters/emotion.ts): EmotionCssAdapter   *)

\* sizeToCss(size, dimension)
SizeToCss(size, dimension) ==
  CASE size.type = "fixed" ->
         IF Has(size, "value") THEN NumberToString(size.value) \o <<"px">>
         ELSE <<"auto">>
    [] size.type = "fill" -> <<"100%">>
    [] OTHER -> IF dimension = "width" THEN <<"max-content">> ELSE <<"auto">>

\* `if (layout.<field> !== undefined) lines.push(`  <property>: ${...}px;`)`
PxLine(obj, field, property) ==
  IF Has(obj, field)
    THEN << <<"  ", property, ": ">> \o NumberToString(obj[field]) \o <<"px;">> >>
    ELSE <<>>

\* `if (layout.<field>) lines.push(`  <property>: ${layout.<field>};`)`
WordLine(obj, field, property) ==
  IF Has(obj, field) /\ obj[field] # ""
    THEN << <<"  ", property, ": ", obj[field], ";">> >>
    ELSE <<>>

\* buildCssBody(node, tokens), for a node without background, border,
\* radius, shadow and font: the lines of the layout, the size, the opacity
\* and the overflow
BuildCssBody(n, tk) ==
  LET l == n.layout
      st == n.style
      gapToken == IF IsUndefined(tk) THEN Null ELSE FindSpacingToken(l.gap, tk)
      lines ==
        << <<"  ", "display", ": ", l.display, ";">> >>
        \o WordLine(l, "direction", "flex-direction")
        \o (IF Has(l, "wrap") /\ l.wrap
              THEN << <<"  ", "flex-wrap", ": ", "wrap", ";">> >> ELSE <<>>)
        \o WordLine(l, "justify", "justify-content")
        \o WordLine(l, "align", "align-items")
        \o (IF l.position # "static"
              THEN << <<"  ", "position", ": ", l.position, ";">> >> ELSE <<>>)
        \o PxLine(l, "top", "top")
        \o PxLine(l, "right", "right")
        \o PxLine(l, "bottom", "bottom")
        \o PxLine(l, "left", "left")
        \o (IF Has(l, "gap")
              THEN IF Truthy(gapToken)
                     THEN << <<"  ", "gap", ": ", "var(--spacing-",
                               gapToken.key, ")", ";">> >>
                     ELSE PxLine(l, "gap", "gap")
              ELSE <<>>)
        \o PxLine(l, "rowGap", "row-gap")
        \o PxLine(l, "columnGap", "column-gap")
        \o (IF Has(l, "padding")
              THEN << <<"  ", "padding", ": ">>
                        \o NumberToString(l.padding[1]) \o <<"px", " ">>
                        \o NumberToString(l.padding[2]) \o <<"px", " ">>
                        \o NumberToString(l.padding[3]) \o <<"px", " ">>
                        \o NumberToString(l.padding[4]) \o <<"px;">> >>
              ELSE <<>>)
        \o << <<"  ", "width", ": ">> \o SizeToCss(l.width, "width") \o <<";">> >>
        \o << <<"  ", "height", ": ">> \o SizeToCss(l.height, "height") \o <<";">> >>
        \o PxLine(l, "minWidth", "min-width")
        \o PxLine(l, "maxWidth", "max-width")
        \o (IF Has(st, "opacity") /\ st.opacity < 1
              THEN << <<"  ", "opacity", ": ">> \o NumberToString(st.opacity)
                        \o <<";">> >>
              ELSE <<>>)
        \o (IF Has(st, "overflow") /\ st.overflow \notin {"", "visible"}
              THEN << <<"  ", "overflow", ": ", st.overflow, ";">> >>
              ELSE <<>>)
  IN  Join(lines, <<NL>>)

\* toCssVarName(name): `name.charAt(0).toLowerCase() + name.slice(1)` and
\* the ending Styles
ToCssVarName(str) ==
  ToLowerCase(SubSeq(str, 1, 1)) \o SliceFrom(str, 1) \o <<"Styles">>

\* the character that opens and closes a template literal
BackTick == "<backtick>"

\* [`const ${varName} = css\``, cssBody, '`;\n'].join('\n')
CssDefinition(n, tk) ==
  Join(<< <<"const ">> \o ToCssVarName(n.name) \o <<" = css", BackTick>>,
          BuildCssBody(n, tk),
          <<BackTick, ";", NL>> >>, <<NL>>)

\* Map.prototype.set: a key already there keeps its place
MapSet(map, key, value) ==
  IF \E i \in 1..Len(map) : map[i].key = key
    THEN [i \in 1..Len(map) |->
            IF map[i].key = key THEN [key |-> key, value |-> value] ELSE map[i]]
    ELSE Append(map, [key |-> key, value |-> value])

MapClearKeepsFirst(map) == IF map = <<>> THEN <<>> ELSE <<map[1]>>

\* Map.prototype.clear
MapClear(map) == <<>>

\* `Array.from(this.cssVars.values()).join('\n')`
CollectedCssVars(map) == Join([i \in 1..Len(map) |-> map[i].value], <<NL>>)

\* the IR nodes given to the adapter: two nodes of one name and different
\* layouts, a node whose name differs from theirs in the case of the first
\* letter only, and a node of another name
IRNodes ==
  { [name |-> <<"C", "a", "r", "d">>,
     layout |-> [display |-> "flex", position |-> "relative",
                 direction |-> "column", justify |-> "flex-start",
                 align |-> "center", gap |-> 16,
                 width |-> [type |-> "fixed", value |-> 100],
                 height |-> [type |-> "hug"]],
     style |-> EmptyObject],
    [name |-> <<"C", "a", "r", "d">>,
     layout |-> [display |-> "block", position |-> "relative",
                 width |-> [type |-> "fill"], height |-> [type |-> "auto"]],
     style |-> EmptyObject],
    [name |-> <<"c", "a", "r", "d">>,
     layout |-> [display |-> "inline", position |-> "relative",
                 width |-> [type |-> "hug"], height |-> [type |-> "hug"]],
     style |-> [overflow |-> "hidden"]],
    [name |-> <<"B", "u", "t", "t", "o", "n">>,
     layout |-> [display |-> "flex", position |-> "absolute", left |-> 5,
                 top |-> 7, direction |-> "row", wrap |-> TRUE, gap |-> 300,
                 justify |-> "space-between", align |-> "baseline",
                 padding |-> <<4, 8, 4, 8>>,
                 width |-> [type |-> "fixed", value |-> 120],
                 height |-> [type |-> "fixed", value |-> 40]],
     style |-> [opacity |-> 0]] }

\* the tokens an adapter is built with: none, or the spacing table of the
\* adapter tests
AdapterTokens ==
  { Undefined,
    [spacing |-> << [key |-> "1", value |-> 4], [key |-> "4", value |-> 16] >>,
     borderRadius |-> <<>>] }

MaxCalls == 3

\* new EmotionCssAdapter(tokens)
InitAdapter ==
  /\ DiffUnused
  /\ BuilderUnused
  /\ RetryUnused
  /\ NodeUnused
  /\ StyleUnused
  /\ LayoutUnused
  /\ VariantUnused
  /\ pc = "start"
  /\ px = 0
  /\ tok = Null
  /\ className = <<>>
  /\ tokens \in AdapterTokens
  /\ cssVars = <<>>
  /\ inlineProps = EmptyObject
  /\ collected = <<>>
  /\ sinceReset = <<>>
  /\ hadEarlierRun = FALSE

\* generateStyle(node)
GenerateStyle ==
  /\ Len(sinceReset) < MaxCalls
  /\ \E n \in IRNodes :
       /\ cssVars' = MapSet(cssVars, ToCssVarName(n.name), CssDefinition(n, tokens))
       /\ inlineProps' = [css |-> <<"{">> \o ToCssVarName(n.name) \o <<"}">>]
       /\ sinceReset' = Append(sinceReset, n)
  /\ pc' = "generated"
  /\ UNCHANGED <<tokens, collected, hadEarlierRun>>
  /\ UNCHANGED exceptAdapter

\* reset()
Reset ==
  /\ cssVars' = MapClear(cssVars)
  /\ sinceReset' = <<>>
  /\ hadEarlierRun' = (hadEarlierRun \/ sinceReset # <<>>)
  /\ pc' = "reset"
  /\ UNCHANGED <<tokens, inlineProps, collected>>
  /\ UNCHANGED exceptAdapter

\* getCollectedCssVars()
GetCollectedCssVars ==
  /\ collected' = CollectedCssVars(cssVars)
  /\ pc' = "collected"
  /\ UNCHANGED <<tokens, cssVars, inlineProps, sinceReset, hadEarlierRun>>
  /\ UNCHANGED exceptAdapter

NextAdapter == GenerateStyle \/ Reset \/ GetCollectedCssVars

SpecAdapter == InitAdapter /\ [][NextAdapter]_vars

\* what a new adapter holds after generateStyle on the nodes, in order
RECURSIVE Replay(_, _, _)
Replay(map, nodes, i) ==
  IF i > Len(nodes) THEN map
  ELSE Replay(MapSet(map, ToCssVarName(nodes[i].name),
                     CssDefinition(nodes[i], tokens)), nodes, i + 1)

\* C20: after reset() the collector's output is what a new adapter returns
\* for the generateStyle calls made since that reset, and so holds no
\* definition of an earlier run.
C20_OutputOnlyFromCallsAfterReset ==
  pc = "collected" =>
    collected = CollectedCssVars(Replay(<<>>, sinceReset, 1))

\* an earlier run generated a definition, reset() wiped it, a later call
\* generated another one, and the output was collected
C20_Witness ==
  /\ pc = "collected"
  /\ hadEarlierRun
  /\ Len(sinceReset) = 1
  /\ collected = CssDefinition(sinceReset[1], tokens)
  /\ collected # <<>>

\* C21: after generateStyle on a sequence of nodes since the last reset, the
\* collector's output contains, for each of those nodes, the definition
\* generated for that node, which starts with the variable name the inline
\* props of that call referenced.
C21_EveryNodeDefinitionCollected ==
  pc = "collected" =>
    \A i \in 1..Len(sinceReset) :
      Includes(collected, CssDefinition(sinceReset[i], tokens))

----------------------------------------------------------------------------
(* C27: what the merge leaves alone                                        *)

\* fresh texts of up to three chunks, so that a marker pair can be followed
\* by a start marker and by a line below it
FrameChunks == { <<LinePlain>>, <<LineStart>>, <<LineEnd>>, ChunkBlock,
                 ChunkBlockX }

MaxFrameChunks == 3

FramePrevTexts == TextsOf({ <<LinePlain>>, ChunkBlock, ChunkBlockX }, 1)

InitFrame ==
  /\ existingContent \in FramePrevTexts
  /\ generatedContent \in TextsOf(FrameChunks, MaxFrameChunks)
  /\ wrapContent = <<>>
  /\ Idle

NextFrame == Merge

\* mergeUserBlocks on a previous text and a fresh text of up to three chunks
SpecFrame == InitFrame /\ [][NextFrame]_vars

\* the lines of the fresh text that are not between the two markers of a
\* pair: the lines outside every pair and the marker lines themselves
RECURSIVE OutsideFrom(_)
OutsideFrom(i) ==
  IF i > Len(FreshLines) THEN <<>>
  ELSE (IF \E k \in DOMAIN FreshPairs :
              FreshPairs[k].start < i /\ i < FreshPairs[k].end
          THEN <<>> ELSE <<FreshLines[i]>>)
       \o OutsideFrom(i + 1)

\* the lines of a found in b in the same order
RECURSIVE IsSubsequence(_, _)
IsSubsequence(a, b) ==
  IF a = <<>> THEN TRUE
  ELSE IF b = <<>> THEN FALSE
  ELSE IF Head(a) = Head(b) THEN IsSubsequence(Tail(a), Tail(b))
  ELSE IsSubsequence(a, Tail(b))

\* C27: when the fresh text contains marker pairs, every line of the fresh
\* text outside a marker pair and every marker line is in the merged text,
\* unchanged and in the same order.
C27_OutsidePairsUnchanged ==
  (pc = "merged" /\ FreshPairs # <<>>) =>
    IsSubsequence(OutsideFrom(1), MergedLines)

----------------------------------------------------------------------------
(* C28: the strategy and the merge                                         *)

\* C28: whenever resolveUpdateStrategy returned merge for a previous text,
\* mergeUserBlocks on that previous text extracts at least one user block
\* and reports hadUserBlocks as true.
C28_MergeStrategyFindsBlocks ==
  (pc = "merged" /\ strategy = "merge") =>
    (PrevBlocks # <<>> /\ result.hadUserBlocks)

----------------------------------------------------------------------------
(* C26: the children of a container without auto-layout                    *)

\* the containers parsed: frames and a group without auto-layout, with and
\* without a bounding box, a frame with auto-layout and a component whose
\* layout mode is NONE
AbsoluteBases ==
  { [type |-> "FRAME", name |-> <<"A", "b", "s">>,
     absoluteBoundingBox |-> [x |-> 10, y |-> 20, width |-> 100, height |-> 50]],
    [type |-> "FRAME", name |-> <<"A", "b", "s">>, layoutMode |-> "NONE",
     absoluteBoundingBox |-> [x |-> 10, y |-> 20, width |-> 100, height |-> 50]],
    [type |-> "GROUP", name |-> <<"A", "b", "s">>],
    [type |-> "FRAME", name |-> <<"A", "b", "s">>, layoutMode |-> "VERTICAL",
     absoluteBoundingBox |-> [x |-> 10, y |-> 20, width |-> 100, height |-> 50]],
    [type |-> "COMPONENT", name |-> <<"A", "b", "s">>, layoutMode |-> "NONE",
     absoluteBoundingBox |-> [x |-> 10, y |-> 20, width |-> 100, height |-> 50]] }

\* their children: a frame, a rectangle and a text with a bounding box, a
\* frame without one and a hidden frame
AbsoluteChildren ==
  { [type |-> "FRAME", name |-> <<"C", "1">>,
     absoluteBoundingBox |-> [x |-> 15, y |-> 27, width |-> 10, height |-> 10]],
    [type |-> "RECTANGLE", name |-> <<"C", "2">>,
     absoluteBoundingBox |-> [x |-> 10, y |-> 60, width |-> 10, height |-> 10]],
    [type |-> "TEXT", name |-> <<"C", "3">>,
     absoluteBoundingBox |-> [x |-> 40, y |-> 25, width |-> 10, height |-> 10]],
    [type |-> "FRAME", name |-> <<"C", "4">>],
    [type |-> "FRAME", name |-> <<"C", "5">>, visible |-> FALSE,
     absoluteBoundingBox |-> [x |-> 15, y |-> 27, width |-> 10, height |-> 10]] }

MaxAbsoluteChildren == 2

InitAbsolute ==
  /\ DiffUnused
  /\ AdapterUnused
  /\ BuilderUnused
  /\ RetryUnused
  /\ TokenUnused
  /\ LayoutUnused
  /\ VariantUnused
  /\ pc = "start"
  /\ node \in { base @@ ("children" :> c) :
                  base \in AbsoluteBases,
                  c \in ListsOf(AbsoluteChildren, MaxAbsoluteChildren) }
  /\ style = EmptyObject
  /\ ir = EmptyObject

NextAbsolute == ParseNodeCall

\* parseNode on a container and its positioned children
SpecAbsolute == InitAbsolute /\ [][NextAbsolute]_vars

\* the node parsed is a container that lacks auto-layout and has children
LacksAutoLayout ==
  /\ pc = "parsed"
  /\ ir.type = "container"
  /\ ~HasAutoLayout(node)
  /\ ir.children # <<>>

\* the i-th child of the IR node is absolute, at its bounding-box origin
\* minus the origin of the container
IsAbsoluteAtOffset(i) ==
  /\ ir.children[i].layout.position = "absolute"
  /\ (Has(node, "absoluteBoundingBox")
        /\ Has(ShownChildren[i], "absoluteBoundingBox"))
     => /\ Has(ir.children[i].layout, "left")
        /\ Has(ir.children[i].layout, "top")
        /\ ir.children[i].layout.left =
             ShownChildren[i].absoluteBoundingBox.x - node.absoluteBoundingBox.x
        /\ ir.children[i].layout.top =
             ShownChildren[i].absoluteBoundingBox.y - node.absoluteBoundingBox.y

CarriesWarning ==
  /\ ir.meta.hasAbsoluteChildren
  /\ \E i \in DOMAIN ir.meta.warnings : ir.meta.warnings[i][1] = "no auto layout"

\* C26: for every container that lacks auto-layout and has children, each
\* child is absolute with offsets equal to its bounding-box origin minus the
\* origin of the container, and the container carries the warning.
C26_ChildrenAbsolute ==
  LacksAutoLayout =>
    /\ \A i \in DOMAIN ir.children : IsAbsoluteAtOffset(i)
    /\ CarriesWarning

\* C26 as the code has it: every child that is not a text is absolute at
\* that offset, a text child stays relative and has no offsets, and the
\* container carries the warning.
C26_NonTextChildrenAbsolute ==
  LacksAutoLayout =>
    /\ \A i \in DOMAIN ir.children :
         IF ShownChildren[i].type = "TEXT"
           THEN /\ ir.children[i].layout.position = "relative"
                /\ ~Has(ir.children[i].layout, "left")
                /\ ~Has(ir.children[i].layout, "top")
           ELSE IsAbsoluteAtOffset(i)
    /\ CarriesWarning

\* a frame without auto-layout at (10, 20) whose frame child at (15, 27) is
\* absolute at (5, 7) and whose text child is relative
C26_Witness ==
  /\ LacksAutoLayout
  /\ Len(ir.children) = 2
  /\ ShownChildren[1].type = "FRAME"
  /\ ir.children[1].layout.position = "absolute"
  /\ Has(ir.children[1].layout, "left")
  /\ ir.children[1].layout.left = 5
  /\ ir.children[1].layout.top = 7
  /\ ShownChildren[2].type = "TEXT"
  /\ ir.children[2].layout.position = "relative"
  /\ CarriesWarning

----------------------------------------------------------------------------
(* C25: a node that cannot be parsed                                       *)

\* detectRepeatingPattern reads `firstChild.name.replace` and
\* `c.name.replace` for every child of the type of the first one: a
\* TypeError when that name is undefined
DetectRepeatingPatternThrows(n) ==
  LET children == ChildrenOf(n)
  IN  /\ Len(children) >= RepeatThreshold
      /\ \E i \in 1..Len(children) :
           /\ children[i].type = children[1].type
           /\ (~Has(children[1], "name") \/ ~Has(children[i], "name"))

\* parseNode(n) ends in a TypeError: `node.name.toLowerCase()` and
\* `toPascalCase(node.name)` on a node without a name, the names read by
\* detectRepeatingPattern, or parseNode of a child that is not hidden; no
\* call on the way catches it
RECURSIVE ParseNodeThrows(_)
ParseNodeThrows(n) ==
  \/ ~Has(n, "name")
  \/ DetectRepeatingPatternThrows(n)
  \/ LET shown == VisibleOnly(ChildrenOf(n))
     IN  \E i \in 1..Len(shown) : ParseNodeThrows(shown[i])

TypeError == [thrown |-> "TypeError"]

\* the children of the frame parsed: frames and a text with a name, and a
\* frame and a hidden frame without one
TreeChildren ==
  { [type |-> "FRAME", name |-> <<"A", " ", "1">>],
    [type |-> "FRAME", name |-> <<"B">>, layoutMode |-> "VERTICAL",
     children |-> <<Leaf>>],
    [type |-> "TEXT", name |-> <<"T">>],
    [type |-> "FRAME"],
    [type |-> "FRAME", visible |-> FALSE] }

MaxTreeChildren == 3

InitTree ==
  /\ DiffUnused
  /\ AdapterUnused
  /\ BuilderUnused
  /\ RetryUnused
  /\ TokenUnused
  /\ LayoutUnused
  /\ VariantUnused
  /\ pc = "start"
  /\ node \in { [type |-> "FRAME", name |-> <<"P", "a", "g", "e">>,
                  layoutMode |-> "VERTICAL", children |-> c] :
                  c \in ListsOf(TreeChildren, MaxTreeChildren) }
  /\ style = EmptyObject
  /\ ir = EmptyObject

\* parseNode(node), which returns the IR node or ends in the TypeError
TryParseNode ==
  /\ pc = "start"
  /\ ir' = IF ParseNodeThrows(node) THEN TypeError
           ELSE ParseNode(node, RootContext)
  /\ pc' = "parsed"
  /\ UNCHANGED node
  /\ UNCHANGED exceptNode

NextTree == TryParseNode

SpecTree == InitTree /\ [][NextTree]_vars

\* the IR node of the i-th child that is not hidden is in the output
IsProduced(i) ==
  /\ ir # TypeError
  /\ \E k \in DOMAIN ir.children :
       /\ ir.children[k].type = ResolveNodeType(ShownChildren[i])
       /\ ir.children[k].style = ParseStyle(ShownChildren[i])
       /\ Len(ir.children[k].children)
            = Len(VisibleOnly(ChildrenOf(ShownChildren[i])))

\* C25: a failure while processing one node does not abort the processing
\* of its siblings: every child of a node that can be parsed itself is
\* processed and its IR node produced, whatever happens to the other
\* children.
C25_SiblingsStillProcessed ==
  (pc = "parsed" /\ Has(node, "name") /\ ~DetectRepeatingPatternThrows(node)) =>
    \A i \in DOMAIN ShownChildren :
      ~ParseNodeThrows(ShownChildren[i]) => IsProduced(i)

----------------------------------------------------------------------------
(* Markup builder: the content of a text node                              *)

\* `text.replace(/`/g, '\\`')`: a backslash before every backtick
RECURSIVE EscapeBackTicks(_)
EscapeBackTicks(text) ==
  IF text = <<>> THEN <<>>
  ELSE (IF Head(text) = BackTick THEN <<"\\", BackTick>> ELSE <<Head(text)>>)
       \o EscapeBackTicks(Tail(text))

\* renderTextContent with a slip: the text itself in every case
RenderTextContentAlwaysText(irNode) ==
  IF ~Has(irNode, "content") THEN <<>> ELSE irNode.content.text

\* renderTextContent(node)
RenderTextContent(irNode) ==
  IF ~Has(irNode, "content") THEN <<>>
  ELSE LET content == irNode.content
       IN  IF Has(content, "propName") /\ content.propName # <<>>
             THEN <<"{">> \o content.propName \o <<"}">>
           ELSE IF content.isPropCandidate THEN content.text
           ELSE IF Includes(content.text, <<NL>>)
             THEN <<"{", BackTick>> \o EscapeBackTicks(content.text)
                    \o <<BackTick, "}">>
           ELSE content.text

\* n times the character c
Repeat(c, n) == [i \in 1..n |-> c]

\* the names of the text layers: plain, with the convention, with the
\* convention in capitals and a second one, with an empty and with a
\* hyphenated prop name
TextNames ==
  { <<"B", "o", "d", "y">>,
    <<"L", "a", "b", "e", "l", " ">> \o PROP_OPEN
      \o <<"l", "a", "b", "e", "l", "]">>,
    <<"[", "P", "R", "O", "P", ":", "x", "_", "1", "]">> \o PROP_OPEN
      \o <<"y", "]">>,
    PROP_OPEN \o <<"]">>,
    PROP_OPEN \o <<"a", "-", "b", "]">> }

\* their characters: none, a short text, texts of 50 and of 51 characters,
\* two lines, and two lines with a backtick
TextCharacters ==
  { <<>>,
    <<"C", "l", "i", "c", "k", " ", "M", "e">>,
    Repeat("a", PropCandidateMaxLength),
    Repeat("a", PropCandidateMaxLength + 1),
    <<"a", NL, "b">>,
    <<"a", BackTick, NL, "b">> }

\* the nodes built: texts, a text without characters and a frame
TextNodes ==
  { [type |-> "TEXT", name |-> nm, characters |-> ch] @@ overrides :
      nm \in TextNames, ch \in TextCharacters,
      overrides \in { EmptyObject,
                      [styleOverrideTable |-> [k1 |-> [fontWeight |-> 700]]] } }
  \cup { [type |-> "TEXT", name |-> <<"B", "o", "d", "y">>],
         [type |-> "FRAME", name |-> <<"B", "o", "d", "y">>,
          layoutMode |-> "VERTICAL"] }

InitBuilder ==
  /\ DiffUnused
  /\ AdapterUnused
  /\ RetryUnused
  /\ TokenUnused
  /\ LayoutUnused
  /\ VariantUnused
  /\ pc = "start"
  /\ node \in TextNodes
  /\ style = EmptyObject
  /\ ir = EmptyObject
  /\ jsx = <<>>

\* parseNode(node), whose result is handed to the builder
ParseTextNode ==
  /\ pc = "start"
  /\ ir' = ParseNode(node, RootContext)
  /\ pc' = "parsed"
  /\ UNCHANGED <<node, jsx>>
  /\ UNCHANGED exceptBuilder

\* renderTextContent(ir), the content buildTextNode puts between the tags
RenderTextContentCall ==
  /\ pc = "parsed"
  /\ jsx' = RenderTextContent(ir)
  /\ pc' = "rendered"
  /\ UNCHANGED <<node, ir>>
  /\ UNCHANGED exceptBuilder

NextBuilder == ParseTextNode \/ RenderTextContentCall

SpecBuilder == InitBuilder /\ [][NextBuilder]_vars

\* the text was marked as a property: its layer name carried the convention
IsMarkedProp == Has(ir, "content") /\ Has(ir.content, "propName")

----------------------------------------------------------------------------
(* withRetry                                                               *)

\* isF2RError(err): an object with a string `code`
IsF2RError(err) == Has(err, "code")

\* `isF2RError(err) && err.code === 'RATE_LIMIT'`
IsRateLimit(err) == IsF2RError(err) /\ err.code = "RATE_LIMIT"

\* `err.retryAfter * 1000`
RateLimitWait(err) == err.retryAfter * 1000

RECURSIVE Pow2(_)
Pow2(n) == IF n = 0 THEN 1 ELSE 2 * Pow2(n - 1)

\* `backoff * Math.pow(2, attempt)`
BackoffWait(initial, n) == initial * Pow2(n)

\* the loop condition with a slip: one more round
LoopContinuesOneMore(n, retries) == n <= retries + 1

\* `attempt <= maxRetries`
LoopContinues(n, retries) == n <= retries

\* `attempt === maxRetries`
IsLastAttempt(n, retries) == n = retries

\* the timer with a slip: it fires at once
SleepEndAtOnce(from, ms, late) == from + late

\* `setTimeout(resolve, ms)`: the timer fires ms after it was set, or later
SleepEnd(from, ms, late) == from + (IF ms > 0 THEN ms ELSE 0) + late

\* the wait hints of a rate-limit error, in seconds: the Retry-After header
RetryAfterHints == {2}

\* how the n-th invocation of fn can settle: with a value, or with the
\* RATE_LIMIT or the AUTH_FAILED error of FigmaClient.request, or with an
\* Error that is no F2RError; `id` tells the errors of two invocations apart
Settlements(n) ==
  { [ok |-> TRUE, value |-> n] }
  \cup { [ok |-> FALSE, error |-> e] :
           e \in { [id |-> n, code |-> "RATE_LIMIT", retryAfter |-> h] :
                     h \in RetryAfterHints }
                 \cup { [id |-> n, code |-> "AUTH_FAILED"],
                        [id |-> n, message |-> "fail"] } }

\* how long an invocation of fn takes, and how late a timer fires, in ms
FnDurations == {0, 5}
Lateness == {0, 3}

\* the largest maxRetries a call is given
RetryCeiling == 2

NotSettled == [kind |-> "pending"]

\* withRetry(fn, maxRetries, backoff) has been called
InitRetry ==
  /\ DiffUnused
  /\ AdapterUnused
  /\ BuilderUnused
  /\ NodeUnused
  /\ StyleUnused
  /\ TokenUnused
  /\ LayoutUnused
  /\ VariantUnused
  /\ pc = "loop"
  /\ maxRetries \in 0..RetryCeiling
  /\ backoff \in {0, 1000}
  /\ attempt = 0
  /\ history = <<>>
  /\ lastError = Undefined
  /\ outcome = NotSettled
  /\ now = 0
  /\ wait = 0

\* one round of the loop up to its await: `await fn()`, the return of its
\* value or the catch, and there the sleep that is started or the break
\* and `throw lastError`
Attempt ==
  /\ pc = "loop"
  /\ LoopContinues(attempt, maxRetries)
  /\ \E d \in FnDurations, settled \in Settlements(Len(history) + 1) :
       /\ history' = Append(history, [start |-> now, end |-> now + d,
                                      settled |-> settled])
       /\ now' = now + d
       /\ IF settled.ok
            THEN /\ outcome' = [kind |-> "returned", value |-> settled.value]
                 /\ pc' = "done"
                 /\ UNCHANGED <<lastError, wait>>
            ELSE /\ lastError' = settled.error
                 /\ IF IsRateLimit(settled.error)
                      THEN /\ wait' = RateLimitWait(settled.error)
                           /\ pc' = "sleep"
                           /\ UNCHANGED outcome
                    ELSE IF IsLastAttempt(attempt, maxRetries)
                      THEN /\ outcome' = [kind |-> "thrown",
                                          error |-> settled.error]
                           /\ pc' = "done"
                           /\ UNCHANGED wait
                    ELSE /\ wait' = BackoffWait(backoff, attempt)
                         /\ pc' = "sleep"
                         /\ UNCHANGED outcome
  /\ UNCHANGED <<maxRetries, backoff, attempt>>
  /\ UNCHANGED exceptRetry

\* the sleep is over: `attempt++`, and the next round or, the loop being
\* over, `throw lastError`
WakeUp ==
  /\ pc = "sleep"
  /\ \E late \in Lateness : now' = SleepEnd(now, wait, late)
  /\ attempt' = attempt + 1
  /\ IF LoopContinues(attempt + 1, maxRetries)
       THEN pc' = "loop" /\ UNCHANGED outcome
       ELSE /\ outcome' = [kind |-> "thrown", error |-> lastError]
            /\ pc' = "done"
  /\ UNCHANGED <<maxRetries, backoff, history, lastError, wait>>
  /\ UNCHANGED exceptRetry

NextRetry == Attempt \/ WakeUp

SpecRetry == InitRetry /\ [][NextRetry]_vars

\* the same with an event loop that settles every pending promise: fn
\* settles and every timer fires
SpecRetryLive == SpecRetry /\ WF_vars(Attempt) /\ WF_vars(WakeUp)

\* the invocations of fn so far
Invocations == Len(history)

\* the k-th invocation failed
Failed(k) == ~history[k].settled.ok

\* the k-th invocation failed with a rate-limit error
RateLimited(k) == Failed(k) /\ IsRateLimit(history[k].settled.error)

Returned == pc = "done" /\ outcome.kind = "returned"
Thrown == pc = "done" /\ outcome.kind = "thrown"

\* what C23 says of every state
AttemptBudgetKept ==
  /\ Invocations <= maxRetries + 1
  /\ Returned =>
       /\ Invocations >= 1
       /\ \A k \in 1..(Invocations - 1) : Failed(k)
       /\ history[Invocations].settled.ok
       /\ outcome.value = history[Invocations].settled.value
  /\ Thrown =>
       /\ Invocations = maxRetries + 1
       /\ \A k \in 1..Invocations : Failed(k)
       /\ outcome.error = history[Invocations].settled.error
  /\ pc = "done" => (Returned \/ Thrown)

\* C23: fn is invoked at most maxRetries + 1 times; withRetry returns the
\* value of the first invocation that succeeds and invokes fn no more; and
\* when maxRetries + 1 invocations have failed it ends by throwing the error
\* of the last one.
C23_AtMostMaxRetriesPlusOne ==
  /\ []AttemptBudgetKept
  /\ [][pc = "done" => history' = history]_vars
  /\ (Invocations = maxRetries + 1 /\ Failed(Invocations)) ~> Thrown
  /\ <>(pc = "done")

\* three invocations were allowed, all three failed, the last one with
\* another error than the first, and that last error was thrown
C23_Witness ==
  /\ Thrown
  /\ maxRetries = 2
  /\ Invocations = 3
  /\ outcome.error = history[3].settled.error
  /\ outcome.error # history[1].settled.error

\* after a rate-limit failure with the hint s, the next invocation does not
\* start before s seconds have gone by
WaitsForHint ==
  \A k \in 1..(Invocations - 1) :
    RateLimited(k) =>
      history[k + 1].start
        >= history[k].end + 1000 * history[k].settled.error.retryAfter

C29_AuthFailureNotRetried ==
  \A k \in 1..Invocations :
    ( /\ Failed(k)
      /\ IsF2RError(history[k].settled.error)
      /\ history[k].settled.error.code = "AUTH_FAILED" )
    => Invocations = k

\* C30: no sleep is pending once the last invocation allowed, the one
\* numbered maxRetries + 1, has failed, a rate-limit failure included.
C30_NoSleepAfterFinalAttempt ==
  ~(pc = "sleep" /\ Invocations = maxRetries + 1)

====
